---- MODULE Spec2Model ----
(***************************************************************************)
(* The round state machine of BLSConsensusState (consensus/BLSState.go):   *)
(* one node, its RoundState, its internal message queue, its timeout       *)
(* ticker, the block store, the WAL and the evidence pool.  Peers are the  *)
(* environment: they may send any proposal, block part or vote.            *)
(***************************************************************************)
EXTENDS Integers, Sequences, FiniteSets, TLC

\* ------------------------------------------------------------------------
\* Bounds of the model
\* Spec follows the node over several heights:
MaxHeight == 2         \* heights 1..MaxHeight are explored
MaxRound == 1          \* rounds 0..MaxRound of the first height are explored,
MaxLaterRound == 0     \* rounds 0..MaxLaterRound of the later heights
MaxPeerVotes == 3      \* votes of peers the node adds during the first height,
MaxLaterVotes == 2     \* and during each later height
\* SpecRounds follows it over more rounds of the first height:
MaxSkipRound == 2      \* rounds 0..MaxSkipRound are explored
MaxSkipVotes == 3      \* votes of peers the node adds
\* SpecWal follows it through the commits of its heights, for every block:
MaxWalHeight == 2      \* heights 1..MaxWalHeight are explored
MaxWalRound == 0       \* rounds 0..MaxWalRound of the first height are explored
MaxWalVotes == 3       \* votes of peers the node adds during the first height,
MaxWalLaterVotes == 2  \* and during each later height
\* SpecSign follows it through the first height, with a Verifier that can fail:
MaxSignHeight == 1     \* heights 1..MaxSignHeight are explored
MaxSignRound == 1      \* rounds 0..MaxSignRound are explored
MaxSignVotes == 2      \* votes of peers the node adds
\* SpecNet follows two nodes through the first height:
MaxNetRound == 1       \* rounds 0..MaxNetRound are explored
MaxNetVotes == 4       \* votes of peers node 1 adds,
MaxNetOtherVotes == 2  \* and node 2
\* SpecExec follows a BlockExecutor:
MaxExecHeight == 2     \* blocks of the heights 1..MaxExecHeight are applied
MaxValidatorUpdates == 2 \* a block carries up to so many validator updates
\* SpecDealer follows one dealer:
MaxValidators == 5     \* validator sets of 1..MaxValidators validators
MaxFreeValidators == 3 \* up to this size messages of different senders come in any order
MaxStagesAhead == 1    \* a message can overtake those of so many stages before

\* ------------------------------------------------------------------------
\* cstypes.RoundStepType
RoundStepNewHeight == 1
RoundStepNewRound == 2
RoundStepPropose == 3
RoundStepPrevote == 4
RoundStepPrevoteWait == 5
RoundStepPrecommit == 6
RoundStepPrecommitWait == 7
RoundStepCommit == 8

PrevoteType == "prevote"
PrecommitType == "precommit"
VoteTypes == {PrevoteType, PrecommitType}

\* ------------------------------------------------------------------------
\* The validator set, by address; the node is one of the validators.
Vals == {"a0", "a1", "a2"}
VotingPower == [a \in Vals |-> IF a = "a1" THEN 2 ELSE 1]
AddrOrder == <<"a0", "a1", "a2">>

RECURSIVE SumPower(_)
SumPower(S) ==
    IF S = {} THEN 0
    ELSE LET a == CHOOSE x \in S : TRUE IN VotingPower[a] + SumPower(S \ {a})

TotalVotingPower == SumPower(Vals)

\* Blocks by hash; NilBlock is the zero BlockID / a nil *Block.
Blocks == {"B1", "B2"}
NilBlock == "nil"
NoVote == "none"
\* the rounds a HeightVoteSet tracks
Rounds == 0..(IF MaxRound > MaxSkipRound THEN MaxRound ELSE MaxSkipRound)

\* Random data: the threshold signature over x is x + 1; the genesis seed is
\* types.InitialRandomData.  A block leaves its proposer without random data.
InitialRandomData == 0
EmptyRandomData == -1
BLSSign(x) == x + 1

\* ------------------------------------------------------------------------
\* types.VoteSet: one vote per validator, by address.
EmptyVotes == [a \in Vals |-> NoVote]

Voters(vs) == {a \in Vals : vs[a] # NoVote}
VotersFor(vs, b) == {a \in Vals : vs[a] = b}
IsQuorum(S) == SumPower(S) * 3 > TotalVotingPower * 2

\* TwoThirdsMajority: the BlockID with +2/3 of the voting power, NoVote if none
TwoThirdsMajority(vs) ==
    IF \E b \in Blocks \cup {NilBlock} : IsQuorum(VotersFor(vs, b))
    THEN CHOOSE b \in Blocks \cup {NilBlock} : IsQuorum(VotersFor(vs, b))
    ELSE NoVote
HasTwoThirdsMajority(vs) == TwoThirdsMajority(vs) # NoVote
HasTwoThirdsAny(vs) == IsQuorum(Voters(vs))
HasAll(vs) == Voters(vs) = Vals

\* cstypes.HeightVoteSet
NewHeightVoteSet == [r \in Rounds |-> [t \in VoteTypes |-> EmptyVotes]]
Prevotes(m, round) == m.cs.Votes[round][PrevoteType]
Precommits(m, round) == m.cs.Votes[round][PrecommitType]

\* HeightVoteSet.POLInfo: the last round with a polka, -1 if none
POLInfo(m) ==
    LET S == {r \in Rounds : HasTwoThirdsMajority(Prevotes(m, r))}
    IN IF S = {} THEN -1 ELSE CHOOSE r \in S : \A q \in S : q <= r

\* ------------------------------------------------------------------------
\* types.ValidatorSet: proposer priorities
MostPriority(prio) ==
    CHOOSE i \in 1..Len(AddrOrder) :
        \A j \in 1..Len(AddrOrder) :
            \/ prio[AddrOrder[i]] > prio[AddrOrder[j]]
            \/ prio[AddrOrder[i]] = prio[AddrOrder[j]] /\ i <= j

RECURSIVE IncrementProposerPriority(_, _)
IncrementProposerPriority(vals, times) ==
    IF times <= 0 THEN vals
    ELSE LET p1 == [a \in Vals |-> vals.prio[a] + VotingPower[a]]
             best == AddrOrder[MostPriority(p1)]
         IN IncrementProposerPriority(
                [prio |-> [p1 EXCEPT ![best] = @ - TotalVotingPower], proposer |-> best],
                times - 1)

\* types.NewValidatorSet
NewValidatorSet ==
    IncrementProposerPriority([prio |-> [a \in Vals |-> 0], proposer |-> AddrOrder[1]], 1)

\* sm.MakeGenesisState
GenesisState ==
    [LastBlockHeight |-> 0,
     Validators |-> NewValidatorSet,
     NextValidators |-> IncrementProposerPriority(NewValidatorSet, 1)]

\* ------------------------------------------------------------------------
\* Values of the RoundState fields
NoBlock == [hash |-> NilBlock, RandomData |-> EmptyRandomData]
NoProposal == [Round |-> -1, POLRound |-> -1, BlockID |-> NilBlock]
NoParts == [header |-> NilBlock, complete |-> FALSE]
NoVoteSet == [round |-> -1, votes |-> EmptyVotes]
NoResult == [added |-> FALSE, err |-> "nil"]

\* Block.HashesTo
HashesTo(b, hash) == hash # NilBlock /\ b.hash = hash
\* PartSet.HasHeader
HasHeader(ps, header) == ps.header # NilBlock /\ ps.header = header
\* types.NewPartSetFromHeader
NewPartSetFromHeader(header) == [header |-> header, complete |-> FALSE]
\* the block a complete part set decodes to
BlockFromParts(header) == [hash |-> header, RandomData |-> EmptyRandomData]
\* sm.State.MakeBlock: the block this node builds from its mempool
MakeBlock == "B1"

\* BlockExecutor.ValidateBlock
ValidateBlock(m, block) == block.hash \in Blocks

\* Verifier: t of GetVerifier, Recover, VerifyRandomData
BLSThreshold == (Cardinality(Vals) \div 3) * 2
RecoverOK(vs) == Cardinality(Voters(vs)) >= BLSThreshold
VerifyRandomData(prevRandomData, randomData) == randomData = BLSSign(prevRandomData)

\* ------------------------------------------------------------------------
\* The machine: everything a handler of the receive routine reads or writes.
Panic(m) == [m EXCEPT !.panic = TRUE]

\* cs.wal.Write and cs.wal.WriteSync: walWrites is what the handler of this
\* step has appended to the WAL, in order
walWrite(m, entry, sync) ==
    [m EXCEPT !.walWrites = Append(@, [entry |-> entry, sync |-> sync])]

\* cs.wal.WriteSync(EndHeightMessage{height}); of the entries of the WAL, the
\* EndHeight markers are kept from step to step
EndHeightMessage(height) == [kind |-> "endheight", Height |-> height]
walWriteEndHeight(m, height) ==
    walWrite([m EXCEPT !.wal = Append(@, height)], EndHeightMessage(height), TRUE)

updateRoundStep(m, round, step) == [m EXCEPT !.cs.Round = round, !.cs.Step = step]

\* timeoutTicker: one timer; a tick for an older height, round or step than the
\* last one accepted is ignored, any other replaces the running timer
scheduleTimeout(m, height, round, step) ==
    LET ti == m.tt.ti
    IN IF \/ height < ti.Height
          \/ (height = ti.Height /\ round < ti.Round)
          \/ (height = ti.Height /\ round = ti.Round /\ ti.Step > 0 /\ step <= ti.Step)
       THEN m
       ELSE [m EXCEPT !.tt = [ti |-> [Height |-> height, Round |-> round, Step |-> step],
                              active |-> TRUE]]

sendInternalMessage(m, msg) == [m EXCEPT !.q = Append(@, msg)]

\* getPreviousBlock().RandomData
PrevRandomData(m) ==
    IF m.cs.Height = 1 THEN InitialRandomData ELSE m.bs[m.cs.Height - 1].RandomData

isProposalComplete(m) ==
    /\ m.cs.Proposal # NoProposal
    /\ m.cs.ProposalBlock # NoBlock
    /\ \/ m.cs.Proposal.POLRound < 0
       \/ HasTwoThirdsMajority(Prevotes(m, m.cs.Proposal.POLRound))

\* signAddVote that sends the precommit whatever Verifier.Sign returned
signAddVoteMutSendUnsigned(m, type, hash) ==
    IF ~m.verifier THEN m
    ELSE sendInternalMessage(m,
            [kind |-> "vote", Type |-> type, Height |-> m.cs.Height,
             Round |-> m.cs.Round, BlockID |-> hash, Val |-> m.self,
             BLS |-> (type = PrecommitType => m.env.sign = "ok")])

\* signAddVote and signVote: nothing is signed without a Verifier, and no
\* precommit when Verifier.Sign fails or returns an empty signature
signAddVote(m, type, hash) ==
    IF ~m.verifier THEN m
    ELSE IF type = PrecommitType /\ m.env.sign # "ok" THEN m
    ELSE sendInternalMessage(m,
            [kind |-> "vote", Type |-> type, Height |-> m.cs.Height,
             Round |-> m.cs.Round, BlockID |-> hash, Val |-> m.self, BLS |-> TRUE])

defaultDoPrevote(m, height, round) ==
    IF m.cs.LockedBlock # NoBlock
    THEN signAddVote(m, PrevoteType, m.cs.LockedBlock.hash)
    ELSE IF m.cs.ProposalBlock = NoBlock
    THEN signAddVote(m, PrevoteType, NilBlock)
    ELSE IF ~ValidateBlock(m, m.cs.ProposalBlock)
    THEN signAddVote(m, PrevoteType, NilBlock)
    ELSE signAddVote(m, PrevoteType, m.cs.ProposalBlock.hash)

enterPrevote(m, height, round) ==
    IF m.panic THEN m
    ELSE IF \/ m.cs.Height # height
            \/ round < m.cs.Round
            \/ (m.cs.Round = round /\ RoundStepPrevote <= m.cs.Step)
    THEN m
    ELSE updateRoundStep(defaultDoPrevote(m, height, round), round, RoundStepPrevote)

enterPrevoteWait(m, height, round) ==
    IF m.panic THEN m
    ELSE IF \/ m.cs.Height # height
            \/ round < m.cs.Round
            \/ (m.cs.Round = round /\ RoundStepPrevoteWait <= m.cs.Step)
    THEN m
    ELSE IF ~HasTwoThirdsAny(Prevotes(m, round)) THEN Panic(m)
    ELSE updateRoundStep(scheduleTimeout(m, height, round, RoundStepPrevoteWait),
                         round, RoundStepPrevoteWait)

\* createProposalBlock: nothing to propose without a commit for the last block
createProposalBlockOK(m) ==
    \/ m.cs.Height = 1
    \/ m.cs.LastCommit # NoVoteSet /\ HasTwoThirdsMajority(m.cs.LastCommit.votes)

defaultDecideProposal(m, height, round) ==
    LET hash == IF m.cs.ValidBlock # NoBlock THEN m.cs.ValidBlock.hash ELSE MakeBlock
        proposal == [kind |-> "proposal", Height |-> height, Round |-> round,
                     POLRound |-> m.cs.ValidRound, BlockID |-> hash, Sig |-> TRUE]
        part == [kind |-> "part", Height |-> m.cs.Height, Round |-> m.cs.Round,
                 Block |-> hash]
    IN IF m.cs.ValidBlock = NoBlock /\ ~createProposalBlockOK(m) THEN m
       ELSE sendInternalMessage(sendInternalMessage(m, proposal), part)

\* enterPropose: the step is updated by the deferred function, which enters
\* Prevote if the proposal is already complete
enterProposeDefer(m, height, round) ==
    IF isProposalComplete(m) THEN enterPrevote(m, height, m.cs.Round) ELSE m

\* enterPropose: the proposer decides the proposal
enterProposeDecide(m, height, round) ==
    IF m.cs.Validators.proposer = m.self
    THEN defaultDecideProposal(m, height, round)
    ELSE m

enterPropose(m, height, round) ==
    IF m.panic THEN m
    ELSE IF \/ m.cs.Height # height
            \/ round < m.cs.Round
            \/ (m.cs.Round = round /\ RoundStepPropose <= m.cs.Step)
    THEN m
    ELSE enterProposeDefer(
            updateRoundStep(
                enterProposeDecide(
                    scheduleTimeout(m, height, round, RoundStepPropose), height, round),
                round, RoundStepPropose),
            height, round)

\* enterNewRound: the proposal of the round before is dropped
enterNewRoundReset(m, round) ==
    IF round = 0
    THEN [m EXCEPT !.cs.TriggeredTimeoutPrecommit = FALSE,
                   !.newRounds = Append(@, round)]
    ELSE [m EXCEPT !.cs.Proposal = NoProposal,
                   !.cs.ProposalBlock = NoBlock,
                   !.cs.ProposalBlockParts = NoParts,
                   !.cs.TriggeredTimeoutPrecommit = FALSE,
                   !.newRounds = Append(@, round)]

\* enterNewRound: the proposer of the round
enterNewRoundValidators(m, round) ==
    IF m.cs.Round < round
    THEN IncrementProposerPriority(m.cs.Validators, round - m.cs.Round)
    ELSE m.cs.Validators

enterNewRoundMutNoRoundGuard(m, height, round) ==
    IF m.panic THEN m
    ELSE IF \/ m.cs.Height # height
            \/ (m.cs.Round = round /\ m.cs.Step # RoundStepNewHeight)
    THEN m
    ELSE enterPropose(
            enterNewRoundReset(
                [updateRoundStep(m, round, RoundStepNewRound)
                    EXCEPT !.cs.Validators = enterNewRoundValidators(m, round)],
                round),
            height, round)

enterNewRoundMutUnlock(m, height, round) ==
    IF m.panic THEN m
    ELSE IF \/ m.cs.Height # height
            \/ round < m.cs.Round
            \/ (m.cs.Round = round /\ m.cs.Step # RoundStepNewHeight)
    THEN m
    ELSE enterPropose(
            enterNewRoundReset(
                [updateRoundStep(m, round, RoundStepNewRound)
                    EXCEPT !.cs.Validators = enterNewRoundValidators(m, round),
                           !.cs.LockedRound = -1,
                           !.cs.LockedBlock = NoBlock],
                round),
            height, round)

enterNewRound(m, height, round) ==
    IF m.panic THEN m
    ELSE IF \/ m.cs.Height # height
            \/ round < m.cs.Round
            \/ (m.cs.Round = round /\ m.cs.Step # RoundStepNewHeight)
    THEN m
    ELSE enterPropose(
            enterNewRoundReset(
                [updateRoundStep(m, round, RoundStepNewRound)
                    EXCEPT !.cs.Validators = enterNewRoundValidators(m, round)],
                round),
            height, round)

Unlock(m) == [m EXCEPT !.cs.LockedRound = -1, !.cs.LockedBlock = NoBlock]

enterPrecommitNoPolkaMutProposal(m) ==
    IF m.cs.ProposalBlock # NoBlock
    THEN signAddVote(m, PrecommitType, m.cs.ProposalBlock.hash)
    ELSE signAddVote(m, PrecommitType, NilBlock)

\* enterPrecommit, no polka: precommit nil
enterPrecommitNoPolka(m) == signAddVote(m, PrecommitType, NilBlock)

\* enterPrecommit, +2/3 prevoted nil, without the unlock
enterPrecommitNilMutKeepLock(m) == signAddVote(m, PrecommitType, NilBlock)

\* enterPrecommit, +2/3 prevoted nil: unlock and precommit nil
enterPrecommitNil(m) ==
    signAddVote(IF m.cs.LockedBlock = NoBlock THEN m ELSE Unlock(m),
                PrecommitType, NilBlock)

\* enterPrecommit, +2/3 prevoted the locked block: relock and precommit it
enterPrecommitRelock(m, round, blockID) ==
    signAddVote([m EXCEPT !.cs.LockedRound = round], PrecommitType, blockID)

\* enterPrecommit, +2/3 prevoted the proposal block: lock and precommit it
enterPrecommitLock(m, round, blockID) ==
    IF ~ValidateBlock(m, m.cs.ProposalBlock) THEN Panic(m)
    ELSE signAddVote([m EXCEPT !.cs.LockedRound = round,
                               !.cs.LockedBlock = m.cs.ProposalBlock],
                     PrecommitType, blockID)

\* enterPrecommit, a polka for a block the node does not have: the parts to fetch
enterPrecommitParts(m, blockID) ==
    IF ~HasHeader(m.cs.ProposalBlockParts, blockID)
    THEN [m EXCEPT !.cs.ProposalBlock = NoBlock,
                   !.cs.ProposalBlockParts = NewPartSetFromHeader(blockID)]
    ELSE m

\* enterPrecommit, a polka for a block the node does not have: unlock, fetch
\* the block, precommit nil
enterPrecommitFetch(m, blockID) ==
    signAddVote(enterPrecommitParts(Unlock(m), blockID), PrecommitType, NilBlock)

enterPrecommitPolkaMutAnyProposal(m, round, blockID) ==
    IF POLInfo(m) < round THEN Panic(m)
    ELSE IF blockID = NilBlock THEN enterPrecommitNil(m)
    ELSE IF HashesTo(m.cs.LockedBlock, blockID)
    THEN enterPrecommitRelock(m, round, blockID)
    ELSE IF m.cs.ProposalBlock # NoBlock
    THEN enterPrecommitLock(m, round, blockID)
    ELSE enterPrecommitFetch(m, blockID)

\* enterPrecommit, +2/3 prevoted blockID, a block or nil, in this round
enterPrecommitPolka(m, round, blockID) ==
    IF POLInfo(m) < round THEN Panic(m)
    ELSE IF blockID = NilBlock THEN enterPrecommitNil(m)
    ELSE IF HashesTo(m.cs.LockedBlock, blockID)
    THEN enterPrecommitRelock(m, round, blockID)
    ELSE IF HashesTo(m.cs.ProposalBlock, blockID)
    THEN enterPrecommitLock(m, round, blockID)
    ELSE enterPrecommitFetch(m, blockID)

\* the body of enterPrecommit, blockID being the polka of the round if any
enterPrecommitBody(m, round, blockID) ==
    IF blockID = NoVote THEN enterPrecommitNoPolka(m)
    ELSE enterPrecommitPolka(m, round, blockID)

\* the deferred function updates the step, also when the body panics
enterPrecommit(m, height, round) ==
    IF m.panic THEN m
    ELSE IF \/ m.cs.Height # height
            \/ round < m.cs.Round
            \/ (m.cs.Round = round /\ RoundStepPrecommit <= m.cs.Step)
    THEN m
    ELSE updateRoundStep(
            enterPrecommitBody(m, round, TwoThirdsMajority(Prevotes(m, round))),
            round, RoundStepPrecommit)

enterPrecommitWait(m, height, round) ==
    IF m.panic THEN m
    ELSE IF \/ m.cs.Height # height
            \/ round < m.cs.Round
            \/ (m.cs.Round = round /\ m.cs.TriggeredTimeoutPrecommit)
    THEN m
    ELSE IF ~HasTwoThirdsAny(Precommits(m, round)) THEN Panic(m)
    ELSE [scheduleTimeout(m, height, round, RoundStepPrecommitWait)
            EXCEPT !.cs.TriggeredTimeoutPrecommit = TRUE]

\* sm.updateState, as far as the round state machine reads its result
updateState(state, height) ==
    [LastBlockHeight |-> height,
     Validators |-> state.NextValidators,
     NextValidators |-> IncrementProposerPriority(state.NextValidators, 1)]

\* updateToState: the precommits of the commit round become LastCommit
updateToStateLastCommit(m) ==
    IF m.cs.CommitRound > -1
    THEN [round |-> m.cs.CommitRound, votes |-> Precommits(m, m.cs.CommitRound)]
    ELSE NoVoteSet

\* updateToState: the RoundState of the next height
updateToStateReset(m, state) ==
    [m EXCEPT !.cs =
        [Height |-> state.LastBlockHeight + 1,
         Round |-> 0,
         Step |-> RoundStepNewHeight,
         Validators |-> state.Validators,
         Proposal |-> NoProposal,
         ProposalBlock |-> NoBlock,
         ProposalBlockParts |-> NoParts,
         LockedRound |-> -1,
         LockedBlock |-> NoBlock,
         ValidRound |-> -1,
         ValidBlock |-> NoBlock,
         Votes |-> NewHeightVoteSet,
         CommitRound |-> -1,
         LastCommit |-> updateToStateLastCommit(m),
         TriggeredTimeoutPrecommit |-> FALSE,
         state |-> state]]

updateToState(m, state) ==
    IF m.panic THEN m
    ELSE IF m.cs.CommitRound > -1 /\ 0 < m.cs.Height
            /\ m.cs.Height # state.LastBlockHeight
    THEN Panic(m)
    ELSE IF m.cs.state.LastBlockHeight + 1 # m.cs.Height THEN Panic(m)
    ELSE IF state.LastBlockHeight <= m.cs.state.LastBlockHeight THEN m
    ELSE IF m.cs.CommitRound > -1
            /\ ~HasTwoThirdsMajority(Precommits(m, m.cs.CommitRound))
    THEN Panic(m)
    ELSE updateToStateReset(m, state)

\* finalizeCommit calls step
Calls(m, step) == [m EXCEPT !.steps = Append(@, step)]

\* finalizeCommit: Round0 of the next height is scheduled
finalizeCommitSchedule(m) ==
    IF m.panic THEN m
    ELSE scheduleTimeout(Calls(m, "scheduleRound0"), m.cs.Height, 0, RoundStepNewHeight)

\* finalizeCommit: ApplyBlock, then updateToState; the process is killed if
\* ApplyBlock fails
finalizeCommitApply(m, height) ==
    IF ~m.env.applyOK THEN [Calls(m, "ApplyBlock") EXCEPT !.killed = TRUE]
    ELSE finalizeCommitSchedule(updateToState(Calls(Calls(m, "ApplyBlock"), "updateToState"),
                                              updateState(m.cs.state, height)))

\* finalizeCommit: the block is saved unless the block store has it
finalizeCommitSaveBlock(m, height, block) ==
    IF Len(m.bs) < height
    THEN [Calls(m, "SaveBlock") EXCEPT !.bs = Append(@, block)]
    ELSE m

\* finalizeCommit with ApplyBlock ahead of the EndHeight marker
finalizeCommitSaveMutApplyFirst(m, height, block) ==
    IF ~m.env.applyOK
    THEN [Calls(finalizeCommitSaveBlock(m, height, block), "ApplyBlock")
             EXCEPT !.killed = TRUE]
    ELSE finalizeCommitSchedule(
             updateToState(
                 Calls(Calls(walWriteEndHeight(
                                 Calls(finalizeCommitSaveBlock(m, height, block),
                                       "ApplyBlock"),
                                 height),
                             "WriteSync"),
                       "updateToState"),
                 updateState(m.cs.state, height)))

\* finalizeCommit: the block is saved, then the EndHeight marker is written
finalizeCommitSave(m, height, block) ==
    finalizeCommitApply(
        Calls(walWriteEndHeight(finalizeCommitSaveBlock(m, height, block), height),
              "WriteSync"),
        height)

finalizeCommitOnMutNoVerify(m, height, blockID, block) ==
    IF blockID = NoVote THEN Panic(m)
    ELSE IF ~HasHeader(m.cs.ProposalBlockParts, blockID) THEN Panic(m)
    ELSE IF ~HashesTo(block, blockID) THEN Panic(m)
    ELSE IF ~ValidateBlock(m, block) THEN Panic(m)
    ELSE IF ~m.verifier THEN Panic(m)
    ELSE finalizeCommitSave(m, height, block)

\* finalizeCommit, for the +2/3 of the commit round and the proposal block
finalizeCommitOn(m, height, blockID, block) ==
    IF blockID = NoVote THEN Panic(m)
    ELSE IF ~HasHeader(m.cs.ProposalBlockParts, blockID) THEN Panic(m)
    ELSE IF ~HashesTo(block, blockID) THEN Panic(m)
    ELSE IF ~ValidateBlock(m, block) THEN Panic(m)
    ELSE IF ~m.verifier THEN Panic(m)
    ELSE IF ~VerifyRandomData(PrevRandomData(m), block.RandomData) THEN Panic(m)
    ELSE finalizeCommitSave(m, height, block)

finalizeCommit(m, height) ==
    IF m.panic THEN m
    ELSE IF m.cs.Height # height \/ m.cs.Step # RoundStepCommit THEN m
    ELSE finalizeCommitOn(m, height,
                          TwoThirdsMajority(Precommits(m, m.cs.CommitRound)),
                          m.cs.ProposalBlock)

tryFinalizeCommit(m, height) ==
    IF m.panic THEN m
    ELSE IF m.cs.Height # height THEN Panic(m)
    ELSE LET blockID == TwoThirdsMajority(Precommits(m, m.cs.CommitRound))
         IN IF blockID = NoVote \/ blockID = NilBlock THEN m
            ELSE IF ~HashesTo(m.cs.ProposalBlock, blockID) THEN m
            ELSE finalizeCommit(m, height)

\* enterCommit: the locked block, if it is the committed one, becomes the
\* proposal block
enterCommitLocked(m, blockID) ==
    IF HashesTo(m.cs.LockedBlock, blockID)
    THEN [m EXCEPT !.cs.ProposalBlock = m.cs.LockedBlock,
                   !.cs.ProposalBlockParts =
                        [header |-> m.cs.LockedBlock.hash, complete |-> TRUE]]
    ELSE m

\* enterCommit: the random data recovered from the precommits is set on the
\* proposal block
enterCommitRandom(m) ==
    IF m.cs.ProposalBlock # NoBlock
    THEN [m EXCEPT !.cs.ProposalBlock.RandomData = BLSSign(PrevRandomData(m))]
    ELSE m

\* enterCommit: the parts of the committed block are fetched if not held
enterCommitParts(m, blockID) ==
    IF /\ ~HashesTo(m.cs.ProposalBlock, blockID)
       /\ ~HasHeader(m.cs.ProposalBlockParts, blockID)
    THEN [m EXCEPT !.cs.ProposalBlock = NoBlock,
                   !.cs.ProposalBlockParts = NewPartSetFromHeader(blockID)]
    ELSE m

\* the body of enterCommit; a panic in it is recovered by the deferred
\* function, which then runs with the state left so far
enterCommitBody(m, precommits, blockID) ==
    IF blockID = NoVote THEN m
    ELSE IF ~m.verifier \/ ~RecoverOK(precommits) THEN enterCommitLocked(m, blockID)
    ELSE enterCommitParts(enterCommitRandom(enterCommitLocked(m, blockID)),
                          blockID)

\* the deferred function of enterCommit
enterCommitDefer(m, height, commitRound) ==
    tryFinalizeCommit([updateRoundStep(m, m.cs.Round, RoundStepCommit)
                           EXCEPT !.cs.CommitRound = commitRound],
                      height)

enterCommit(m, height, commitRound) ==
    IF m.panic THEN m
    ELSE IF m.cs.Height # height \/ RoundStepCommit <= m.cs.Step THEN m
    ELSE enterCommitDefer(
            enterCommitBody(m, Precommits(m, commitRound),
                            TwoThirdsMajority(Precommits(m, commitRound))),
            height, commitRound)

\* VoteSet.AddVote on the votes of one round and type
VoteSetAddVote(votes, vote) ==
    IF votes[vote.Val] = NoVote
    THEN [added |-> TRUE, err |-> "nil", votes |-> [votes EXCEPT ![vote.Val] = vote.BlockID]]
    ELSE IF votes[vote.Val] = vote.BlockID
    THEN [added |-> FALSE, err |-> "nil", votes |-> votes]
    ELSE [added |-> FALSE, err |-> "ErrVoteConflictingVotes", votes |-> votes]

Result(m, added, err) == [m EXCEPT !.out = [added |-> added, err |-> err]]

addVoteLastCommitMutAnyStep(m, vote) ==
    IF vote.Type # PrecommitType
    THEN Result(m, FALSE, "ErrVoteHeightMismatch")
    ELSE IF m.cs.LastCommit = NoVoteSet THEN Panic(m)
    ELSE IF vote.Round # m.cs.LastCommit.round
    THEN Result(m, FALSE, "ErrVoteUnexpectedStep")
    ELSE LET r == VoteSetAddVote(m.cs.LastCommit.votes, vote)
             m1 == Result([m EXCEPT !.cs.LastCommit.votes = r.votes], r.added, r.err)
         IN IF ~r.added THEN m1
            ELSE IF m.config.SkipTimeoutCommit /\ HasAll(r.votes)
            THEN enterNewRound(m1, m1.cs.Height, 0)
            ELSE m1

\* addVote, for a vote of height cs.Height - 1
addVoteLastCommit(m, vote) ==
    IF ~(m.cs.Step = RoundStepNewHeight /\ vote.Type = PrecommitType)
    THEN Result(m, FALSE, "ErrVoteHeightMismatch")
    ELSE IF m.cs.LastCommit = NoVoteSet THEN Panic(m)
    ELSE IF vote.Round # m.cs.LastCommit.round
    THEN Result(m, FALSE, "ErrVoteUnexpectedStep")
    ELSE LET r == VoteSetAddVote(m.cs.LastCommit.votes, vote)
             m1 == Result([m EXCEPT !.cs.LastCommit.votes = r.votes], r.added, r.err)
         IN IF ~r.added THEN m1
            ELSE IF m.config.SkipTimeoutCommit /\ HasAll(r.votes)
            THEN enterNewRound(m1, m1.cs.Height, 0)
            ELSE m1

\* addVote, a prevote was added: unlock on a polka of a round in
\* (LockedRound, Round] for another block or for nil
addVotePrevoteUnlock(m, vote, blockID) ==
    IF /\ blockID # NoVote
       /\ m.cs.LockedBlock # NoBlock
       /\ m.cs.LockedRound < vote.Round
       /\ vote.Round <= m.cs.Round
       /\ ~HashesTo(m.cs.LockedBlock, blockID)
    THEN Unlock(m)
    ELSE m

\* addVote, a prevote was added: the parts of the polka's block are fetched
\* if they are not the ones held
addVotePrevoteParts(m, blockID) ==
    IF ~HasHeader(m.cs.ProposalBlockParts, blockID)
    THEN [m EXCEPT !.cs.ProposalBlockParts = NewPartSetFromHeader(blockID)]
    ELSE m

\* addVote, a prevote was added: update Valid* on a polka of the current round
addVotePrevoteValid(m, vote, blockID) ==
    IF /\ blockID # NoVote
       /\ blockID # NilBlock
       /\ m.cs.ValidRound < vote.Round
       /\ vote.Round = m.cs.Round
    THEN addVotePrevoteParts(
            IF HashesTo(m.cs.ProposalBlock, blockID)
            THEN [m EXCEPT !.cs.ValidRound = vote.Round,
                           !.cs.ValidBlock = m.cs.ProposalBlock]
            ELSE [m EXCEPT !.cs.ProposalBlock = NoBlock],
            blockID)
    ELSE m

addVotePrevoteStepMutNextRound(m, vote, height, prevotes, blockID) ==
    IF m.cs.Round < vote.Round /\ HasTwoThirdsAny(prevotes)
    THEN enterNewRound(m, height, m.cs.Round + 1)
    ELSE IF m.cs.Round = vote.Round /\ RoundStepPrevote <= m.cs.Step
    THEN IF blockID # NoVote /\ (isProposalComplete(m) \/ blockID = NilBlock)
         THEN enterPrecommit(m, height, vote.Round)
         ELSE IF HasTwoThirdsAny(prevotes)
         THEN enterPrevoteWait(m, height, vote.Round)
         ELSE m
    ELSE IF /\ m.cs.Proposal # NoProposal
            /\ 0 <= m.cs.Proposal.POLRound
            /\ m.cs.Proposal.POLRound = vote.Round
    THEN IF isProposalComplete(m) THEN enterPrevote(m, height, m.cs.Round)
         ELSE m
    ELSE m

\* addVote, a prevote was added: the step the prevotes of its round allow
addVotePrevoteStep(m, vote, height, prevotes, blockID) ==
    IF m.cs.Round < vote.Round /\ HasTwoThirdsAny(prevotes)
    THEN enterNewRound(m, height, vote.Round)
    ELSE IF m.cs.Round = vote.Round /\ RoundStepPrevote <= m.cs.Step
    THEN IF blockID # NoVote /\ (isProposalComplete(m) \/ blockID = NilBlock)
         THEN enterPrecommit(m, height, vote.Round)
         ELSE IF HasTwoThirdsAny(prevotes)
         THEN enterPrevoteWait(m, height, vote.Round)
         ELSE m
    ELSE IF /\ m.cs.Proposal # NoProposal
            /\ 0 <= m.cs.Proposal.POLRound
            /\ m.cs.Proposal.POLRound = vote.Round
    THEN IF isProposalComplete(m) THEN enterPrevote(m, height, m.cs.Round)
         ELSE m
    ELSE m

\* addVote, after a prevote of the current height was added
addVotePrevoteOn(m, vote, prevotes, blockID) ==
    addVotePrevoteStep(
        addVotePrevoteValid(addVotePrevoteUnlock(m, vote, blockID), vote, blockID),
        vote, m.cs.Height, prevotes, blockID)

addVotePrevote(m, vote) ==
    addVotePrevoteOn(m, vote, Prevotes(m, vote.Round),
                     TwoThirdsMajority(Prevotes(m, vote.Round)))

\* addVote, a precommit was added and its round has +2/3 for a block:
\* after enterCommit, and with all precommits in, skip the commit timeout
addVotePrecommitSkip(m, skip) ==
    IF skip THEN enterNewRound(m, m.cs.Height, 0) ELSE m

\* addVote, a precommit was added and its round has +2/3 for blockID
addVotePrecommitMaj(m, vote, height, blockID, skip) ==
    IF blockID # NilBlock
    THEN addVotePrecommitSkip(enterCommit(m, height, vote.Round), skip)
    ELSE enterPrecommitWait(m, height, vote.Round)

\* addVote, after a precommit of the current height was added
addVotePrecommitOn(m, vote, height, precommits, blockID) ==
    IF blockID # NoVote
    THEN addVotePrecommitMaj(
            enterPrecommit(enterNewRound(m, height, vote.Round), height, vote.Round),
            vote, height, blockID,
            m.config.SkipTimeoutCommit /\ HasAll(precommits))
    ELSE IF m.cs.Round <= vote.Round /\ HasTwoThirdsAny(precommits)
    THEN enterPrecommitWait(enterNewRound(m, height, vote.Round), height, vote.Round)
    ELSE m

addVotePrecommit(m, vote) ==
    addVotePrecommitOn(m, vote, m.cs.Height, Precommits(m, vote.Round),
                       TwoThirdsMajority(Precommits(m, vote.Round)))

\* addVote, the vote is of the current height: what VoteSet.AddVote returned
addVoteAdded(m, vote, r) ==
    IF ~r.added THEN Result(m, r.added, r.err)
    ELSE IF vote.Type = PrevoteType
    THEN addVotePrevote(
            Result([m EXCEPT !.cs.Votes[vote.Round][vote.Type] = r.votes],
                   r.added, r.err), vote)
    ELSE addVotePrecommit(
            Result([m EXCEPT !.cs.Votes[vote.Round][vote.Type] = r.votes],
                   r.added, r.err), vote)

addVoteMutNoShareCheck(m, vote) ==
    IF vote.Height + 1 = m.cs.Height THEN addVoteLastCommit(m, vote)
    ELSE IF vote.Height # m.cs.Height THEN Result(m, FALSE, "ErrVoteHeightMismatch")
    ELSE IF vote.Type = PrecommitType /\ ~m.verifier THEN Panic(m)
    ELSE addVoteAdded(m, vote, VoteSetAddVote(m.cs.Votes[vote.Round][vote.Type], vote))

addVote(m, vote) ==
    IF vote.Height + 1 = m.cs.Height THEN addVoteLastCommit(m, vote)
    ELSE IF vote.Height # m.cs.Height THEN Result(m, FALSE, "ErrVoteHeightMismatch")
    ELSE IF vote.Type = PrecommitType /\ ~m.verifier THEN Panic(m)
    ELSE IF vote.Type = PrecommitType /\ ~vote.BLS
    THEN Result(m, FALSE, "random share authenticy check failed")
    ELSE addVoteAdded(m, vote, VoteSetAddVote(m.cs.Votes[vote.Round][vote.Type], vote))

tryAddVoteErrMutNoEvidence(m, vote) ==
    IF m.panic \/ m.out.err = "nil" THEN m
    ELSE IF m.out.err = "ErrVoteHeightMismatch" THEN m
    ELSE IF m.out.err = "ErrVoteConflictingVotes" THEN m
    ELSE Result(m, m.out.added, "ErrAddingVote")

\* tryAddVote, on what addVote returned
tryAddVoteErr(m, vote) ==
    IF m.panic \/ m.out.err = "nil" THEN m
    ELSE IF m.out.err = "ErrVoteHeightMismatch" THEN m
    ELSE IF m.out.err = "ErrVoteConflictingVotes"
    THEN IF vote.Val = m.self THEN m
         ELSE [m EXCEPT !.ev = @ \cup {vote.Val}]
    ELSE Result(m, m.out.added, "ErrAddingVote")

tryAddVote(m, vote) == tryAddVoteErr(addVote(m, vote), vote)

defaultSetProposal(m, proposal) ==
    IF m.cs.Proposal # NoProposal THEN m
    ELSE IF proposal.Height # m.cs.Height \/ proposal.Round # m.cs.Round THEN m
    ELSE IF \/ proposal.POLRound < -1
            \/ (proposal.POLRound >= 0 /\ proposal.POLRound >= proposal.Round)
    THEN Result(m, FALSE, "ErrInvalidProposalPOLRound")
    ELSE IF ~proposal.Sig THEN Result(m, FALSE, "ErrInvalidProposalSignature")
    ELSE LET m1 == [m EXCEPT !.cs.Proposal =
                        [Round |-> proposal.Round, POLRound |-> proposal.POLRound,
                         BlockID |-> proposal.BlockID]]
         IN IF m1.cs.ProposalBlockParts = NoParts
            THEN [m1 EXCEPT !.cs.ProposalBlockParts =
                                 NewPartSetFromHeader(proposal.BlockID)]
            ELSE m1

addProposalBlockPartValidMutOff(m, blockID) == m

\* addProposalBlockPart, the block is complete: update Valid* on a polka of
\* the current round for it
addProposalBlockPartValid(m, blockID) ==
    IF /\ blockID # NoVote
       /\ blockID # NilBlock
       /\ m.cs.ValidRound < m.cs.Round
       /\ HashesTo(m.cs.ProposalBlock, blockID)
    THEN [m EXCEPT !.cs.ValidRound = m.cs.Round,
                   !.cs.ValidBlock = m.cs.ProposalBlock]
    ELSE m

\* addProposalBlockPart, the block is complete and the node has prevoted
addProposalBlockPartPrecommit(m, height, hasTwoThirds) ==
    IF hasTwoThirds THEN enterPrecommit(m, height, m.cs.Round) ELSE m

\* addProposalBlockPart, the block is complete: the step it allows
addProposalBlockPartStep(m, height, hasTwoThirds) ==
    IF m.cs.Step <= RoundStepPropose /\ isProposalComplete(m)
    THEN addProposalBlockPartPrecommit(enterPrevote(m, height, m.cs.Round),
                                       height, hasTwoThirds)
    ELSE IF m.cs.Step = RoundStepCommit THEN tryFinalizeCommit(m, height)
    ELSE m

\* addProposalBlockPart, the block is complete
addProposalBlockPartComplete(m, height, blockID) ==
    addProposalBlockPartStep(addProposalBlockPartValid(m, blockID),
                             height, blockID # NoVote)

addProposalBlockPart(m, msg) ==
    IF m.cs.Height # msg.Height THEN m
    ELSE IF m.cs.ProposalBlockParts = NoParts THEN m
    ELSE IF msg.Block # m.cs.ProposalBlockParts.header
    THEN Result(m, FALSE, "ErrPartSetInvalidProof")
    ELSE IF m.cs.ProposalBlockParts.complete THEN m
    ELSE addProposalBlockPartComplete(
            Result([m EXCEPT !.cs.ProposalBlockParts.complete = TRUE,
                             !.cs.ProposalBlock = BlockFromParts(msg.Block)],
                   TRUE, "nil"),
            msg.Height, TwoThirdsMajority(Prevotes(m, m.cs.Round)))

handleMsg(m, msg) ==
    IF msg.kind = "proposal" THEN defaultSetProposal(m, msg)
    ELSE IF msg.kind = "part" THEN addProposalBlockPart(m, msg)
    ELSE tryAddVote(m, msg)

\* handleTimeout without the comparison of the steps of one round
handleTimeoutMutNoStep(m, ti) ==
    IF \/ ti.Height # m.cs.Height
       \/ ti.Round < m.cs.Round
    THEN m
    ELSE IF ti.Step = RoundStepNewHeight THEN enterNewRound(m, ti.Height, 0)
    ELSE IF ti.Step = RoundStepNewRound THEN enterPropose(m, ti.Height, 0)
    ELSE IF ti.Step = RoundStepPropose THEN enterPrevote(m, ti.Height, ti.Round)
    ELSE IF ti.Step = RoundStepPrevoteWait THEN enterPrecommit(m, ti.Height, ti.Round)
    ELSE IF ti.Step = RoundStepPrecommitWait
    THEN enterNewRound(enterPrecommit(m, ti.Height, ti.Round), ti.Height, ti.Round + 1)
    ELSE Panic(m)

handleTimeout(m, ti) ==
    IF \/ ti.Height # m.cs.Height
       \/ ti.Round < m.cs.Round
       \/ (ti.Round = m.cs.Round /\ ti.Step < m.cs.Step)
    THEN m
    ELSE IF ti.Step = RoundStepNewHeight THEN enterNewRound(m, ti.Height, 0)
    ELSE IF ti.Step = RoundStepNewRound THEN enterPropose(m, ti.Height, 0)
    ELSE IF ti.Step = RoundStepPropose THEN enterPrevote(m, ti.Height, ti.Round)
    ELSE IF ti.Step = RoundStepPrevoteWait THEN enterPrecommit(m, ti.Height, ti.Round)
    ELSE IF ti.Step = RoundStepPrecommitWait
    THEN enterNewRound(enterPrecommit(m, ti.Height, ti.Round), ti.Height, ti.Round + 1)
    ELSE Panic(m)

\* receiveRoutine, case mi = <-cs.peerMsgQueue. A panic of the handler unwinds
\* to the deferred function of the routine, past anything that follows the
\* handler.
receivePeerMsgMutHandleFirst(m, mi) ==
    IF handleMsg(m, mi).panic THEN handleMsg(m, mi)
    ELSE walWrite(handleMsg(m, mi), mi, FALSE)

receivePeerMsg(m, mi) == handleMsg(walWrite(m, mi, FALSE), mi)

\* receiveRoutine, case mi = <-cs.internalMsgQueue
receiveInternalMsg(m, mi) == handleMsg(walWrite(m, mi, TRUE), mi)

\* receiveRoutine, case ti := <-cs.timeoutTicker.Chan()
receiveTimeout(m, ti) == handleTimeout(walWrite(m, ti, FALSE), ti)

\* onExit: cs.wal.Stop(), cs.wal.Wait(), close(cs.done)
onExit(e) == [walStopped |-> TRUE, done |-> e.done + 1]

\* the deferred function of receiveRoutine: a panic of the handler is
\* recovered and onExit runs
receiveRoutineDeferMutNoExit(m, e) == e

receiveRoutineDefer(m, e) == IF m.panic THEN onExit(e) ELSE e

\* ------------------------------------------------------------------------
\* State
VARIABLES
    cs,                \* the RoundState of BLSConsensusState, with cs.state
    internalMsgQueue,  \* the node's own signed messages, not yet handled
    timeoutTicker,     \* the timeouts scheduled and not yet handled
    blockStore,        \* the blocks saved, by height
    wal,               \* the heights of the EndHeight markers written
    evpool,            \* validators with duplicate-vote evidence in the pool
    verifier,          \* whether cs.dkg.Verifier() is set
    config,            \* the ConsensusConfig
    privValidator,     \* the address of the validator this node signs for
    running,           \* the receive routine: running, panicked, killed or quit
    peerVotes,         \* how many votes of peers were added during this height
    exited,            \* whether the WAL was stopped, how often cs.done was closed
    other,             \* a second correct node, when two are followed
    dkg,               \* the dealers of a DKG round and the messages sent to them
    scope,             \* the bounds of the run
    exec               \* a BlockExecutor, when one is followed

vars == <<cs, internalMsgQueue, timeoutTicker, blockStore, wal, evpool, verifier,
          config, privValidator, running, peerVotes, exited, other, dkg, scope, exec>>

\* no second node is followed
NoNode == [self |-> "none"]

\* no DKG round is followed
NoDKG == [scenario |-> "none"]

\* no BlockExecutor is followed
NoExecutor == [pc |-> "none"]

Peers == Vals \ {privValidator}

\* The machine a handler starts from; applyOK is the outcome ApplyBlock will
\* have, sign the outcome of Verifier.Sign: a signature, an error, or an empty
\* signature.
\* out is what the handler returns (added, err), newRounds the NewRound events it
\* publishes, steps the calls finalizeCommit makes, in their order.
Machine(applyOK) ==
    [cs |-> cs, q |-> internalMsgQueue, tt |-> timeoutTicker, bs |-> blockStore,
     wal |-> wal, ev |-> evpool, verifier |-> verifier, config |-> config,
     panic |-> FALSE, killed |-> FALSE, env |-> [applyOK |-> applyOK, sign |-> "ok"],
     out |-> NoResult, newRounds |-> <<>>, fromPeer |-> FALSE,
     self |-> privValidator, walWrites |-> <<>>, steps |-> <<>>]

PeerMachine(applyOK) == [Machine(applyOK) EXCEPT !.fromPeer = TRUE]

\* the machine m, Verifier.Sign having the outcome sign
Signing(m, sign) == [m EXCEPT !.env.sign = sign]

\* The bounds of the model: the node is followed through heights 1..MaxHeight,
\* closely through the first and for a shorter run through the later ones
RoundBound(height) == IF height = 1 THEN scope.rounds ELSE scope.laterRounds
VoteBound(height) == IF height = 1 THEN scope.votes ELSE scope.laterVotes
Bounded(m) ==
    m.cs.Height <= scope.heights + 1 /\ m.cs.Round <= RoundBound(m.cs.Height)
Live == running = "running" /\ cs.Height <= scope.heights

\* A handler ran and left the machine m; a panic is recovered by the receive
\* routine, which then stops.
Commit(m) ==
    /\ Bounded(m)
    /\ cs' = m.cs
    /\ internalMsgQueue' = m.q
    /\ timeoutTicker' = m.tt
    /\ blockStore' = m.bs
    /\ wal' = m.wal
    /\ evpool' = m.ev
    /\ running' = IF m.panic THEN "panicked" ELSE IF m.killed THEN "killed" ELSE "running"
    /\ peerVotes' = IF m.cs.Height # cs.Height THEN 0
                    ELSE IF m.out.added /\ m.fromPeer THEN peerVotes + 1
                    ELSE peerVotes
    /\ exited' = receiveRoutineDefer(m, exited)
    /\ UNCHANGED <<verifier, config, privValidator, other, dkg, scope, exec>>

\* NewBLSConsensusState and OnStart, from the genesis state
InitialRoundState ==
    [Height |-> 1, Round |-> 0, Step |-> RoundStepNewHeight,
     Validators |-> GenesisState.Validators,
     Proposal |-> NoProposal, ProposalBlock |-> NoBlock, ProposalBlockParts |-> NoParts,
     LockedRound |-> -1, LockedBlock |-> NoBlock,
     ValidRound |-> -1, ValidBlock |-> NoBlock,
     Votes |-> NewHeightVoteSet, CommitRound |-> -1, LastCommit |-> NoVoteSet,
     TriggeredTimeoutPrecommit |-> FALSE, state |-> GenesisState]

Started ==
    /\ cs = InitialRoundState
    /\ internalMsgQueue = <<>>
    /\ timeoutTicker = [ti |-> [Height |-> 1, Round |-> 0, Step |-> RoundStepNewHeight],
                        active |-> TRUE]
    /\ blockStore = <<>>
    /\ wal = <<>>
    /\ evpool = {}
    /\ config = [SkipTimeoutCommit |-> FALSE]
    /\ running = "running"
    /\ peerVotes = 0
    /\ exited = [walStopped |-> FALSE, done |-> 0]

\* the node signs for a0, who proposes in round 1 of height 1 and in round 0
\* of height 2; peers propose and vote for either block
Init ==
    /\ Started
    /\ verifier = FALSE
    /\ other = NoNode
    /\ dkg = NoDKG
    /\ privValidator = "a0"
    /\ exec = NoExecutor
    /\ scope = [heights |-> MaxHeight, rounds |-> MaxRound,
                laterRounds |-> MaxLaterRound, votes |-> MaxPeerVotes,
                laterVotes |-> MaxLaterVotes, blocks |-> Blocks,
                signs |-> {"ok"}]

\* the node signs for a2, who proposes in round 2 of height 1; peers propose
\* and vote for the block the node would propose itself
InitRounds ==
    /\ Started
    /\ verifier = FALSE
    /\ other = NoNode
    /\ dkg = NoDKG
    /\ privValidator = "a2"
    /\ exec = NoExecutor
    /\ scope = [heights |-> 1, rounds |-> MaxSkipRound, laterRounds |-> 0,
                votes |-> MaxSkipVotes, laterVotes |-> 0, blocks |-> {MakeBlock},
                signs |-> {"ok"}]

\* ------------------------------------------------------------------------
\* What peers can send
PeerRounds == 0..RoundBound(cs.Height)

Vote(type, height, round, blockID, val, bls) ==
    [kind |-> "vote", Type |-> type, Height |-> height, Round |-> round,
     BlockID |-> blockID, Val |-> val, BLS |-> bls]

\* precommits that carry the address of this node and conflict with the
\* precommit it has signed: another instance runs with the key of the node
OwnConflictingPrecommits ==
    {v \in {Vote(PrecommitType, cs.Height, r, b, privValidator, TRUE) :
                r \in PeerRounds, b \in scope.blocks \cup {NilBlock}} :
        cs.Votes[v.Round][PrecommitType][privValidator] \notin {NoVote, v.BlockID}}

\* votes of the current height, with a valid or an invalid BLS share; votes of
\* the previous height, with a valid or an invalid share; a vote of the next
\* height; precommits that conflict with the node's own
PeerVotes ==
    {Vote(t, cs.Height, r, b, a, TRUE) :
        t \in VoteTypes, r \in PeerRounds, b \in scope.blocks \cup {NilBlock},
        a \in Peers}
    \cup {Vote(PrecommitType, cs.Height, r, b, a, FALSE) :
        r \in PeerRounds, b \in scope.blocks \cup {NilBlock}, a \in Peers}
    \cup {Vote(t, cs.Height - 1, r, b, a, TRUE) :
        t \in VoteTypes, r \in 0..RoundBound(cs.Height - 1),
        b \in scope.blocks \cup {NilBlock}, a \in Peers}
    \cup {Vote(PrecommitType, cs.Height - 1, r, b, a, FALSE) :
        r \in 0..RoundBound(cs.Height - 1),
        b \in scope.blocks \cup {NilBlock}, a \in Peers}
    \cup {Vote(t, cs.Height + 1, 0, "B1", a, TRUE) : t \in VoteTypes, a \in Peers}
    \cup OwnConflictingPrecommits

Proposal(height, round, polRound, blockID, sig) ==
    [kind |-> "proposal", Height |-> height, Round |-> round, POLRound |-> polRound,
     BlockID |-> blockID, Sig |-> sig]

\* proposals of the current height, signed by the proposer or not; a proposal
\* of the next height
PeerProposals ==
    {Proposal(cs.Height, r, p, b, TRUE) :
        r \in PeerRounds, p \in -1..RoundBound(cs.Height), b \in scope.blocks}
    \cup {Proposal(cs.Height, cs.Round, -1, b, FALSE) : b \in scope.blocks}
    \cup {Proposal(cs.Height + 1, 0, -1, "B1", TRUE)}

PeerBlockParts ==
    [kind : {"part"}, Height : {cs.Height, cs.Height + 1}, Round : {cs.Round},
     Block : scope.blocks]

\* Verifier.Sign is called only while there is a Verifier
SignOutcomes == IF verifier THEN scope.signs ELSE {"ok"}

\* ApplyBlock runs, and may fail, only when a handler finalizes a commit
ApplyOutcomes(msg) ==
    IF \/ (msg.kind = "vote" /\ msg.Type = PrecommitType)
       \/ (msg.kind = "part" /\ cs.Step = RoundStepCommit)
    THEN BOOLEAN ELSE {TRUE}

\* ------------------------------------------------------------------------
\* The receive routine: one case of its select per step

\* case mi = <-cs.peerMsgQueue, a vote
ReceivePeerVote ==
    /\ Live
    /\ peerVotes < VoteBound(cs.Height)
    /\ \E vote \in PeerVotes :
          /\ \E applyOK \in ApplyOutcomes(vote) : \E sign \in SignOutcomes :
                Commit(receivePeerMsg(Signing(PeerMachine(applyOK), sign), vote))

\* case mi = <-cs.peerMsgQueue, a proposal
ReceivePeerProposal ==
    /\ Live
    /\ \E proposal \in PeerProposals :
          \* a peer cannot sign for this node
          /\ cs.Validators.proposer = privValidator => ~proposal.Sig
          /\ Commit([receivePeerMsg(PeerMachine(TRUE), proposal) EXCEPT !.out = NoResult])

\* case mi = <-cs.peerMsgQueue, a block part
ReceivePeerBlockPart ==
    /\ Live
    /\ \E part \in PeerBlockParts :
          \E applyOK \in ApplyOutcomes(part) : \E sign \in SignOutcomes :
             Commit([receivePeerMsg(Signing(PeerMachine(applyOK), sign), part)
                        EXCEPT !.out = NoResult])

\* case mi = <-cs.internalMsgQueue
ReceiveInternalMsg ==
    /\ Live
    /\ internalMsgQueue # <<>>
    /\ \E applyOK \in ApplyOutcomes(Head(internalMsgQueue)) : \E sign \in SignOutcomes :
          Commit(receiveInternalMsg([Signing(Machine(applyOK), sign)
                                        EXCEPT !.q = Tail(internalMsgQueue)],
                                    Head(internalMsgQueue)))

\* case ti := <-cs.timeoutTicker.Chan()
ReceiveTimeout ==
    /\ Live
    /\ timeoutTicker.active
    /\ \E sign \in SignOutcomes :
          Commit(receiveTimeout([Signing(Machine(TRUE), sign) EXCEPT !.tt.active = FALSE],
                                timeoutTicker.ti))

\* case <-cs.Quit()
ReceiveQuit ==
    /\ running = "running"
    /\ cs.Height > scope.heights
    /\ running' = "quit"
    /\ exited' = onExit(exited)
    /\ UNCHANGED <<cs, internalMsgQueue, timeoutTicker, blockStore, wal, evpool,
                   verifier, config, privValidator, peerVotes, other, dkg, scope, exec>>

\* SetVerifier: the coordinator hands over the Verifier of a finished DKG round,
\* here while the node waits in NewHeight
SetVerifier ==
    /\ Live
    /\ ~verifier
    /\ cs.Step = RoundStepNewHeight
    /\ verifier' = TRUE
    /\ UNCHANGED <<cs, internalMsgQueue, timeoutTicker, blockStore, wal, evpool,
                   config, privValidator, running, peerVotes, exited, other, dkg, scope, exec>>

Next ==
    \/ ReceivePeerVote
    \/ ReceivePeerProposal
    \/ ReceivePeerBlockPart
    \/ ReceiveInternalMsg
    \/ ReceiveTimeout
    \/ ReceiveQuit
    \/ SetVerifier

Spec == Init /\ [][Next]_vars

SpecRounds == InitRounds /\ [][Next]_vars

\* the node signs for a0 and is followed through the first height;
\* Verifier.Sign can fail whenever the node signs a precommit
InitSign ==
    /\ Started
    /\ verifier = FALSE
    /\ other = NoNode
    /\ dkg = NoDKG
    /\ privValidator = "a0"
    /\ exec = NoExecutor
    /\ scope = [heights |-> MaxSignHeight, rounds |-> MaxSignRound, laterRounds |-> 0,
                votes |-> MaxSignVotes, laterVotes |-> 0, blocks |-> Blocks,
                signs |-> {"ok", "error", "empty"}]

SpecSign == InitSign /\ [][Next]_vars

\* the node signs for a0 and is followed through round 0 of the heights
\* 1..MaxWalHeight; peers propose and vote for either block
InitWal ==
    /\ Started
    /\ verifier = FALSE
    /\ other = NoNode
    /\ dkg = NoDKG
    /\ privValidator = "a0"
    /\ exec = NoExecutor
    /\ scope = [heights |-> MaxWalHeight, rounds |-> MaxWalRound, laterRounds |-> 0,
                votes |-> MaxWalVotes, laterVotes |-> MaxWalLaterVotes,
                blocks |-> Blocks, signs |-> {"ok"}]

SpecWal == InitWal /\ [][Next]_vars

\* ------------------------------------------------------------------------
\* Two correct nodes and a byzantine validator. The node of the variables
\* above is node 1, the node in other is node 2; both run the same handlers.
\* The third validator is byzantine: it signs any vote, and any proposal for
\* a round it proposes in, and sends each node what it likes.

\* node 1 as a record of the shape of other
ThisNode ==
    [cs |-> cs, q |-> internalMsgQueue, tt |-> timeoutTicker, bs |-> blockStore,
     wal |-> wal, ev |-> evpool, running |-> running, peerVotes |-> peerVotes,
     self |-> privValidator]

NodeOf(i) == IF i = 1 THEN ThisNode ELSE other

Byzantine == CHOOSE a \in Vals : a # privValidator /\ a # other.self

\* the machine a handler of node n starts from
NodeMachine(n, applyOK, fromPeer) ==
    [cs |-> n.cs, q |-> n.q, tt |-> n.tt, bs |-> n.bs, wal |-> n.wal, ev |-> n.ev,
     verifier |-> verifier, config |-> config,
     panic |-> FALSE, killed |-> FALSE, env |-> [applyOK |-> applyOK, sign |-> "ok"],
     out |-> NoResult, newRounds |-> <<>>, fromPeer |-> fromPeer, self |-> n.self,
     walWrites |-> <<>>, steps |-> <<>>]

\* node n after a handler left the machine m
NodeAfter(n, m) ==
    [cs |-> m.cs, q |-> m.q, tt |-> m.tt, bs |-> m.bs, wal |-> m.wal, ev |-> m.ev,
     running |-> IF m.panic THEN "panicked" ELSE IF m.killed THEN "killed"
                 ELSE "running",
     peerVotes |-> IF m.cs.Height # n.cs.Height THEN 0
                   ELSE IF m.out.added /\ m.fromPeer THEN n.peerVotes + 1
                   ELSE n.peerVotes,
     self |-> n.self]

\* a handler of node i ran and left the machine m
NodeCommit(i, m) ==
    /\ Bounded(m)
    /\ IF i = 1
       THEN /\ cs' = m.cs
            /\ internalMsgQueue' = m.q
            /\ timeoutTicker' = m.tt
            /\ blockStore' = m.bs
            /\ wal' = m.wal
            /\ evpool' = m.ev
            /\ running' = NodeAfter(ThisNode, m).running
            /\ peerVotes' = NodeAfter(ThisNode, m).peerVotes
            /\ exited' = receiveRoutineDefer(m, exited)
            /\ UNCHANGED other
       ELSE /\ other' = NodeAfter(other, m)
            /\ UNCHANGED <<cs, internalMsgQueue, timeoutTicker, blockStore, wal,
                           evpool, running, peerVotes, exited>>
    /\ UNCHANGED <<verifier, config, privValidator, dkg, scope, exec>>

NodeLive(n) == n.running = "running" /\ n.cs.Height <= scope.heights

\* the schedules followed: a node handles the messages it has queued for
\* itself before it takes a message of a peer or a timeout
NodeIdle(n) == NodeLive(n) /\ n.q = <<>>

\* the votes node n has signed: those still in its queue, those in its vote
\* sets, and its precommit in LastCommit once it has moved to the next height
SignedVotes(n) ==
    {n.q[j] : j \in {k \in 1..Len(n.q) : n.q[k].kind = "vote"}}
    \cup {v \in {Vote(t, n.cs.Height, r, b, n.self, TRUE) :
                    t \in VoteTypes, r \in Rounds, b \in Blocks \cup {NilBlock}} :
             n.cs.Votes[v.Round][v.Type][n.self] = v.BlockID}
    \cup (IF n.cs.LastCommit # NoVoteSet /\ n.cs.LastCommit.votes[n.self] # NoVote
          THEN {Vote(PrecommitType, n.cs.Height - 1, n.cs.LastCommit.round,
                     n.cs.LastCommit.votes[n.self], n.self, TRUE)}
          ELSE {})

\* the block the byzantine validator backs in a round: the block of the
\* correct proposer in round 0, another block, which it proposes itself, later
ByzantineBlock(round) == IF round = 0 THEN MakeBlock ELSE "B2"

\* the votes the byzantine validator signs; it sends each of them to one of
\* the nodes, to both or to none
ByzantineVotes ==
    {Vote(t, 1, r, ByzantineBlock(r), Byzantine, TRUE) :
        t \in VoteTypes, r \in 0..scope.rounds}

\* the proposals node n has signed: those in its queue, and the one of its
\* current round when it is the proposer
SignedProposals(n) ==
    {n.q[j] : j \in {k \in 1..Len(n.q) : n.q[k].kind = "proposal"}}
    \cup (IF n.cs.Proposal # NoProposal /\ n.cs.Validators.proposer = n.self
          THEN {Proposal(n.cs.Height, n.cs.Proposal.Round, n.cs.Proposal.POLRound,
                         n.cs.Proposal.BlockID, TRUE)}
          ELSE {})

\* the proposals the byzantine validator may sign for node n: n checks the
\* signature against the proposer of its round
ByzantineProposals(n) ==
    IF n.cs.Validators.proposer = Byzantine
    THEN {Proposal(n.cs.Height, n.cs.Round, pol, ByzantineBlock(n.cs.Round), TRUE) :
             pol \in -1..(n.cs.Round - 1)}
    ELSE {}

\* case mi = <-cs.peerMsgQueue, a vote of the other node or of the byzantine
NetReceiveVote ==
    \E i \in {1, 2} :
        /\ NodeIdle(NodeOf(i))
        /\ NodeOf(i).peerVotes < (IF i = 1 THEN scope.votes ELSE scope.otherVotes)
        /\ \E vote \in SignedVotes(NodeOf(3 - i)) \cup ByzantineVotes :
              NodeCommit(i, receivePeerMsg(NodeMachine(NodeOf(i), TRUE, TRUE), vote))

\* case mi = <-cs.peerMsgQueue, a proposal
NetReceiveProposal ==
    \E i \in {1, 2} :
        /\ NodeIdle(NodeOf(i))
        /\ \E proposal \in SignedProposals(NodeOf(3 - i))
                              \cup ByzantineProposals(NodeOf(i)) :
              NodeCommit(i, [receivePeerMsg(NodeMachine(NodeOf(i), TRUE, TRUE), proposal)
                                EXCEPT !.out = NoResult])

\* case mi = <-cs.peerMsgQueue, a block part
NetReceiveBlockPart ==
    \E i \in {1, 2} :
        /\ NodeIdle(NodeOf(i))
        /\ \E block \in scope.blocks :
              NodeCommit(i, [receivePeerMsg(NodeMachine(NodeOf(i), TRUE, TRUE),
                                            [kind |-> "part",
                                             Height |-> NodeOf(i).cs.Height,
                                             Round |-> NodeOf(i).cs.Round,
                                             Block |-> block])
                                EXCEPT !.out = NoResult])

\* case mi = <-cs.internalMsgQueue
NetReceiveInternalMsg ==
    \E i \in {1, 2} :
        /\ NodeLive(NodeOf(i))
        /\ NodeOf(i).q # <<>>
        /\ NodeCommit(i, receiveInternalMsg([NodeMachine(NodeOf(i), TRUE, FALSE)
                                                EXCEPT !.q = Tail(NodeOf(i).q)],
                                            Head(NodeOf(i).q)))

\* case ti := <-cs.timeoutTicker.Chan()
NetReceiveTimeout ==
    \E i \in {1, 2} :
        /\ NodeIdle(NodeOf(i))
        /\ NodeOf(i).tt.active
        /\ NodeCommit(i, receiveTimeout([NodeMachine(NodeOf(i), TRUE, FALSE)
                                            EXCEPT !.tt.active = FALSE],
                                        NodeOf(i).tt.ti))

NextNet ==
    \/ NetReceiveVote
    \/ NetReceiveProposal
    \/ NetReceiveBlockPart
    \/ NetReceiveInternalMsg
    \/ NetReceiveTimeout

\* nodes a1 and a2 are correct and hold 3 of the 4 units of voting power, a0
\* is byzantine; the Verifier of the finished DKG round was set before the
\* nodes started
InitNet ==
    /\ Started
    /\ verifier = TRUE
    /\ privValidator = "a1"
    /\ other = [ThisNode EXCEPT !.self = "a2"]
    /\ dkg = NoDKG
    /\ exec = NoExecutor
    /\ scope = [heights |-> 1, rounds |-> MaxNetRound, laterRounds |-> 0,
                votes |-> MaxNetVotes, otherVotes |-> MaxNetOtherVotes,
                laterVotes |-> 0, blocks |-> Blocks, signs |-> {"ok"}]

SpecNet == InitNet /\ [][NextNet]_vars

\* ------------------------------------------------------------------------
\* Properties of the round state machine

\* the votes this node signed that are still in its internal queue
QueuedVotes ==
    {internalMsgQueue[i] : i \in {j \in 1..Len(internalMsgQueue) :
                                      internalMsgQueue[j].kind = "vote"}}

\* the block with +2/3 of the prevotes of a round of the current height
Polka(round) == TwoThirdsMajority(cs.Votes[round][PrevoteType])

\* C2: every precommit the node signed for a block B at a round r of the
\* current height, whether still queued or already in its vote set, is backed
\* by a +2/3 majority of the prevotes of round r for B; without that majority
\* the precommit it signed is for nil.
PrecommitOnlyOnPolka ==
    /\ \A v \in QueuedVotes :
          (v.Type = PrecommitType /\ v.Height = cs.Height /\ v.BlockID # NilBlock)
              => Polka(v.Round) = v.BlockID
    /\ \A r \in Rounds :
          cs.Votes[r][PrecommitType][privValidator] \in Blocks
              => Polka(r) = cs.Votes[r][PrecommitType][privValidator]

\* the node has signed a precommit for a block, in a round after the first
PrecommitOnlyOnPolkaWitness ==
    \E v \in QueuedVotes :
        /\ v.Type = PrecommitType /\ v.Height = cs.Height
        /\ v.BlockID \in Blocks /\ v.Round > 0

\* C3: locking soundness: a node locked on block B at round r holds a +2/3
\* majority of the prevotes of round r of the current height for B.
LockingSoundness ==
    cs.LockedBlock # NoBlock =>
        /\ cs.LockedRound \in Rounds
        /\ Polka(cs.LockedRound) = cs.LockedBlock.hash

\* the node is locked on a block, the lock taken or renewed after round 0
LockingSoundnessWitness ==
    cs.LockedBlock # NoBlock /\ cs.LockedRound > 0

\* C4: LockedRound <= ValidRound <= Round in every reachable RoundState.
LockedValidRoundOrder ==
    cs.LockedRound <= cs.ValidRound /\ cs.ValidRound <= cs.Round

\* C5: within one height the lock on (r, B) is cleared only when the node
\* holds, for a round r' with r < r' <= Round, a +2/3 majority of prevotes
\* for nil or for a block other than B; and then LockedRound is -1.
UnlockOnlyOnLaterPolka ==
    [][(cs.LockedBlock # NoBlock /\ cs'.Height = cs.Height
            /\ cs'.LockedBlock = NoBlock)
        => /\ cs'.LockedRound = -1
           /\ \E r \in Rounds :
                 /\ cs.LockedRound < r /\ r <= cs'.Round
                 /\ TwoThirdsMajority(cs'.Votes[r][PrevoteType])
                        \notin {NoVote, cs.LockedBlock.hash}]_vars

\* the node precommitted a block in this height, so it was locked, and is no
\* longer locked
UnlockOnlyOnLaterPolkaWitness ==
    /\ cs.LockedBlock = NoBlock
    /\ \E r \in Rounds : cs.Votes[r][PrecommitType][privValidator] \in Blocks

\* the block with +2/3 of the prevotes of a round in the RoundState rs
PolkaIn(rs, round) == TwoThirdsMajority(rs.Votes[round][PrevoteType])

\* in rs the node holds, as ProposalBlock, the block with +2/3 of the prevotes
\* of the round, and has not entered the commit step
HoldsPolkaBlock(rs, round) ==
    /\ rs.Step # RoundStepCommit
    /\ PolkaIn(rs, round) \in Blocks
    /\ HashesTo(rs.ProposalBlock, PolkaIn(rs, round))

\* within one height ValidRound does not decrease in a step
ValidRoundNeverDecreases ==
    cs'.Height = cs.Height => cs'.ValidRound >= cs.ValidRound

\* C6, as stated: within one height ValidRound never decreases, and a node
\* that holds, as ProposalBlock, the block with +2/3 of the prevotes of any
\* round r of the height has ValidRound at r or later and that block as
\* ValidBlock.
ValidOnAnyPolka ==
    /\ [][ValidRoundNeverDecreases]_vars
    /\ [](\A r \in Rounds :
              HoldsPolkaBlock(cs, r)
                  => /\ cs.ValidRound >= r
                     /\ HashesTo(cs.ValidBlock, PolkaIn(cs, r)))

\* C6, amended: within one height ValidRound never decreases, and before the
\* commit step a node that holds, as ProposalBlock, the block with +2/3 of
\* the prevotes of its current round has ValidRound = Round and that block as
\* ValidBlock, whichever of the polka and the block was complete first.
ValidOnCurrentPolka ==
    /\ [][ValidRoundNeverDecreases]_vars
    /\ [](HoldsPolkaBlock(cs, cs.Round)
              => /\ cs.ValidRound = cs.Round
                 /\ HashesTo(cs.ValidBlock, PolkaIn(cs, cs.Round)))

\* in a round after the first the node holds the block of the round's polka,
\* and has updated ValidRound to the round
ValidOnCurrentPolkaWitness ==
    /\ cs.Round > 0
    /\ HoldsPolkaBlock(cs, cs.Round)
    /\ cs.ValidRound = cs.Round

\* the votes of a round and type of the current height, once vote is added
VotesWith(vote) ==
    [cs.Votes[vote.Round][vote.Type] EXCEPT ![vote.Val] = vote.BlockID]

\* a vote of a peer for a later round of the current height
LaterRoundVotes == {v \in PeerVotes : v.Height = cs.Height /\ v.Round > cs.Round}

\* the handler left the machine m after adding vote: it has entered NewRound
\* for the round of the vote and for no other
EnteredRoundOf(m, vote) ==
    m.out.added =>
        /\ m.newRounds = <<vote.Round>>
        /\ m.cs.Height = cs.Height => m.cs.Round = vote.Round

\* C7: round skipping: when a vote is added that brings the prevotes or the
\* precommits of a round r' > Round of the current height to +2/3 of any
\* votes, the handler of that vote enters NewRound(h, r'), and publishes no
\* NewRound of a round between.
RoundSkipping ==
    \A v \in LaterRoundVotes :
        HasTwoThirdsAny(VotesWith(v)) =>
            \A applyOK \in ApplyOutcomes(v) :
                EnteredRoundOf(tryAddVote(PeerMachine(applyOK), v), v)

\* the node is in Prevote and the precommit of a peer brings the precommits
\* two rounds ahead to +2/3 of any votes: NewRound is entered for that round
RoundSkippingWitness ==
    /\ cs.Step = RoundStepPrevote
    /\ \E v \in LaterRoundVotes :
          /\ v.Type = PrecommitType /\ v.Round = cs.Round + 2
          /\ HasTwoThirdsAny(VotesWith(v))
          /\ tryAddVote(PeerMachine(TRUE), v).out.added
          /\ tryAddVote(PeerMachine(TRUE), v).newRounds = <<v.Round>>

\* within one height (Round, Step) does not decrease lexicographically in a step
RoundStepOrder ==
    cs'.Height = cs.Height =>
        \/ cs'.Round > cs.Round
        \/ cs'.Round = cs.Round /\ cs'.Step >= cs.Step

\* the routines that guard on the round are no-ops for an earlier round, and
\* every routine is a no-op once its step is reached in the current round
EnterIsNoOp(m) ==
    /\ \A r \in Rounds :
          r < cs.Round =>
              /\ enterNewRound(m, cs.Height, r) = m
              /\ enterPropose(m, cs.Height, r) = m
              /\ enterPrevote(m, cs.Height, r) = m
              /\ enterPrevoteWait(m, cs.Height, r) = m
              /\ enterPrecommit(m, cs.Height, r) = m
              /\ enterPrecommitWait(m, cs.Height, r) = m
    /\ cs.Step # RoundStepNewHeight => enterNewRound(m, cs.Height, cs.Round) = m
    /\ cs.Step >= RoundStepPropose => enterPropose(m, cs.Height, cs.Round) = m
    /\ cs.Step >= RoundStepPrevote => enterPrevote(m, cs.Height, cs.Round) = m
    /\ cs.Step >= RoundStepPrevoteWait => enterPrevoteWait(m, cs.Height, cs.Round) = m
    /\ cs.Step >= RoundStepPrecommit => enterPrecommit(m, cs.Height, cs.Round) = m
    /\ cs.TriggeredTimeoutPrecommit => enterPrecommitWait(m, cs.Height, cs.Round) = m
    /\ cs.Step >= RoundStepCommit =>
          \A r \in Rounds : enterCommit(m, cs.Height, r) = m

\* enterCommit is a no-op for a commit round before the current round
EnterCommitIsNoOp(m) ==
    \A r \in Rounds : r < cs.Round => enterCommit(m, cs.Height, r) = m

\* C8, as stated: within one height (Round, Step) never decreases
\* lexicographically, and every enterX routine, enterCommit included, is a
\* no-op when called for an earlier round or for a step already reached.
RoundStepMonotoneAllNoOp ==
    /\ [][RoundStepOrder]_vars
    /\ [](EnterIsNoOp(Machine(TRUE)) /\ EnterCommitIsNoOp(Machine(TRUE)))

\* C8, amended: within one height (Round, Step) never decreases
\* lexicographically; enterNewRound, enterPropose, enterPrevote,
\* enterPrevoteWait, enterPrecommit and enterPrecommitWait are no-ops for an
\* earlier round, and every enterX routine is a no-op once its step is reached
\* in the current round (enterCommit guards on the step only).
RoundStepMonotone ==
    [][RoundStepOrder]_vars /\ [](EnterIsNoOp(Machine(TRUE)))

\* the node has precommitted in a round after the first, where enterCommit for
\* round 0 would still move it to the commit step
RoundStepMonotoneWitness ==
    /\ cs.Round > 0 /\ cs.Step = RoundStepPrecommit
    /\ enterCommit(Machine(TRUE), cs.Height, 0).cs.Step = RoundStepCommit

\* C9: randomness soundness: every block in the block store verifies against
\* the random data of the block before it, the block of height 1 against the
\* genesis constant; an EndHeight marker is written, a block applied and the
\* height advanced only for a block saved so.
RandomnessSoundness ==
    /\ \A h \in 1..Len(blockStore) :
          VerifyRandomData(IF h = 1 THEN InitialRandomData
                           ELSE blockStore[h - 1].RandomData,
                           blockStore[h].RandomData)
    /\ \A i \in 1..Len(wal) : wal[i] <= Len(blockStore)
    /\ cs.state.LastBlockHeight <= Len(blockStore)
    /\ cs.Height <= Len(blockStore) + 1

\* the node has finalized height 2, whose block was verified against the
\* random data of the block of height 1
RandomnessSoundnessWitness ==
    Len(blockStore) = 2 /\ cs.Height = 3 /\ Len(wal) = 2

\* the votes of the height before and of the height after the current one,
\* of every validator: a peer may send them, and the node's own wait in its
\* internal queue when the height advances
OtherHeightVotes ==
    {Vote(t, cs.Height - 1, r, b, a, TRUE) :
        t \in VoteTypes, r \in 0..RoundBound(cs.Height - 1),
        b \in Blocks \cup {NilBlock}, a \in Vals}
    \cup {Vote(t, cs.Height + 1, 0, "B1", a, TRUE) : t \in VoteTypes, a \in Vals}

\* the handler left the machine m: the vote was answered with
\* ErrVoteHeightMismatch and nothing the node holds has changed
RejectedByHeight(m) ==
    /\ m.out = [added |-> FALSE, err |-> "ErrVoteHeightMismatch"]
    /\ ~m.panic /\ ~m.killed
    /\ m.cs = cs
    /\ m.ev = evpool
    /\ m.q = internalMsgQueue
    /\ m.tt = timeoutTicker
    /\ m.bs = blockStore
    /\ m.wal = wal

\* C10: vote ingestion by height: a vote of another height than the current
\* one, unless it is a precommit of height - 1 arriving in step NewHeight, is
\* answered with ErrVoteHeightMismatch and changes nothing: not the
\* RoundState with its vote sets and LastCommit, not the evidence pool.
VoteIngestionByHeight ==
    \A v \in OtherHeightVotes :
        ~(/\ v.Height + 1 = cs.Height
          /\ cs.Step = RoundStepNewHeight
          /\ v.Type = PrecommitType)
            => RejectedByHeight(tryAddVote(PeerMachine(TRUE), v))

\* in step NewHeight of height 2 a precommit of a peer for height 1 was added
\* to LastCommit: no vote of height 2 is in yet
VoteIngestionByHeightWitness ==
    /\ cs.Height = 2 /\ cs.Step = RoundStepNewHeight
    /\ peerVotes > 0
    /\ cs.Votes = NewHeightVoteSet

\* the precommits node n committed its block of height 1 on: those of its
\* commit round, or LastCommit once it has moved to the next height
CommitPrecommits(n) ==
    IF n.cs.Height = 1 THEN n.cs.Votes[n.cs.CommitRound][PrecommitType]
    ELSE n.cs.LastCommit.votes

\* node n has saved a block of height 1
Finalized(n) == Len(n.bs) >= 1

\* C1: agreement: the two correct nodes, with a byzantine validator of less
\* than 1/3 of the voting power sending each of them any votes and proposals,
\* never finalize different blocks at height 1; and a node that has finalized
\* a block holds, in the precommits of its commit round, a +2/3 majority for
\* the hash of that block.
Agreement ==
    /\ (Finalized(ThisNode) /\ Finalized(other))
          => ThisNode.bs[1].hash = other.bs[1].hash
    /\ \A i \in {1, 2} :
          Finalized(NodeOf(i))
              => TwoThirdsMajority(CommitPrecommits(NodeOf(i))) = NodeOf(i).bs[1].hash

\* both nodes have finalized a block at height 1, each from its own precommits
AgreementWitness ==
    /\ Finalized(ThisNode) /\ Finalized(other)
    /\ ThisNode.cs.Height = 2 /\ other.cs.Height = 2
\* ------------------------------------------------------------------------
\* Conflicting precommits

\* the precommits a peer can deliver that conflict with a precommit recorded
\* for the same validator at the same height and round
ConflictingPrecommits ==
    {v \in PeerVotes :
        /\ v.Type = PrecommitType /\ v.Height = cs.Height /\ v.BLS
        /\ cs.Votes[v.Round][PrecommitType][v.Val] \notin {NoVote, v.BlockID}}

\* tryAddVote left r: the conflicting vote was not added and the round state,
\* with its vote sets and their majorities, is as it was
ConflictIgnored(r) ==
    /\ ~r.panic /\ ~r.out.added /\ r.out.err = "ErrVoteConflictingVotes"
    /\ r.cs = cs /\ r.q = internalMsgQueue /\ r.bs = blockStore

\* C11, as stated: every conflicting precommit, of whichever validator of the
\* set, leaves duplicate-vote evidence for that validator in the pool, and
\* changes nothing of the precommits recorded.
EvidenceOnEveryConflict ==
    \A v \in ConflictingPrecommits :
        /\ v.Val \in tryAddVote(PeerMachine(TRUE), v).ev
        /\ ConflictIgnored(tryAddVote(PeerMachine(TRUE), v))

EvidenceFor(r, v) ==
    IF v.Val = privValidator THEN r.ev = evpool ELSE r.ev = evpool \cup {v.Val}

\* C11, amended: a conflicting precommit of any validator other than the
\* node's own leaves duplicate-vote evidence for that validator in the pool; one
\* that carries the node's own address leaves the pool as it was. Either way the
\* vote is not added and the round state, with the precommits recorded and
\* their majority, is unchanged, so the majority block can still be committed.
EvidenceOnPeerConflict ==
    \A v \in ConflictingPrecommits :
        /\ EvidenceFor(tryAddVote(PeerMachine(TRUE), v), v)
        /\ ConflictIgnored(tryAddVote(PeerMachine(TRUE), v))

\* evidence against a peer is in the pool, and the block its first precommit
\* helped to commit at height 1 was saved
EvidenceOnPeerConflictWitness ==
    /\ evpool # {}
    /\ cs.Height = 2 /\ Len(blockStore) = 1 /\ cs.Votes = NewHeightVoteSet
    /\ \E a \in evpool : cs.LastCommit.votes[a] = blockStore[1].hash
\* ------------------------------------------------------------------------
\* Precommits with an invalid random share

\* the precommits of the current height a peer can deliver whose BLS share
\* fails VerifyRandomShare
InvalidSharePrecommits ==
    {v \in PeerVotes : v.Type = PrecommitType /\ v.Height = cs.Height /\ ~v.BLS}

\* tryAddVote left r: the vote was not added, the vote sets and with them
\* every +2/3 count, the step, the node's queue and timer and the evidence
\* pool are as they were
ShareRejected(r) ==
    /\ ~r.out.added
    /\ r.cs = cs /\ r.q = internalMsgQueue /\ r.tt = timeoutTicker
    /\ r.bs = blockStore /\ r.ev = evpool
    /\ verifier => (~r.panic /\ r.out.err = "ErrAddingVote")

\* C12: a precommit of the current height whose BLS share fails
\* VerifyRandomShare is rejected: it is not added to the vote set, counts
\* toward no +2/3, causes no step transition and leaves no evidence.
InvalidShareRejected ==
    \A v \in InvalidSharePrecommits : ShareRejected(tryAddVote(PeerMachine(TRUE), v))

\* an invalid-share precommit is rejected where the same precommit with a
\* valid share would have given its block +2/3 and taken the node to commit
InvalidShareRejectedWitness ==
    /\ verifier /\ Live /\ cs.Step < RoundStepCommit
    /\ \E v \in InvalidSharePrecommits :
          /\ ShareRejected(tryAddVote(PeerMachine(TRUE), v))
          /\ tryAddVote(PeerMachine(TRUE), [v EXCEPT !.BLS = TRUE]).cs.Step
                 = RoundStepCommit

\* ------------------------------------------------------------------------
\* The write-ahead log

\* the first entry the step r wrote to the WAL is its input, and whatever the
\* handler wrote itself, an EndHeight marker, comes after it
WalFirst(r, entry, sync) ==
    /\ Len(r.walWrites) >= 1
    /\ r.walWrites[1] = [entry |-> entry, sync |-> sync]
    /\ \A j \in 2..Len(r.walWrites) : r.walWrites[j].entry.kind = "endheight"

PeerMsgs == PeerVotes \cup PeerProposals \cup PeerBlockParts

\* C13: in the receive routine every peer message is written to the WAL
\* before handleMsg runs for it, every internal message is written with fsync
\* before handleMsg runs for it, and every timeout tick is written before
\* handleTimeout runs: the input is in the WAL ahead of whatever the handler
\* does, also when the handler panics.
WriteAheadLog ==
    Live =>
        /\ \A mi \in PeerMsgs : \A applyOK \in ApplyOutcomes(mi) :
              WalFirst(receivePeerMsg(PeerMachine(applyOK), mi), mi, FALSE)
        /\ internalMsgQueue # <<>> =>
              \A applyOK \in ApplyOutcomes(Head(internalMsgQueue)) :
                 WalFirst(receiveInternalMsg(
                              [Machine(applyOK) EXCEPT !.q = Tail(internalMsgQueue)],
                              Head(internalMsgQueue)),
                          Head(internalMsgQueue), TRUE)
        /\ timeoutTicker.active =>
              WalFirst(receiveTimeout([Machine(TRUE) EXCEPT !.tt.active = FALSE],
                                      timeoutTicker.ti),
                       timeoutTicker.ti, FALSE)

\* a peer's precommit is written to the WAL and its handler then commits the
\* block and writes the EndHeight marker behind it
WriteAheadLogWitness ==
    /\ Live
    /\ \E v \in PeerVotes :
          receivePeerMsg(PeerMachine(TRUE), v).walWrites
              = <<[entry |-> v, sync |-> FALSE],
                  [entry |-> EndHeightMessage(cs.Height), sync |-> TRUE]>>

\* ------------------------------------------------------------------------
\* The end of the receive routine

Exited == running \in {"panicked", "quit"}

\* C14: when a handler panics the receive routine recovers, stops the WAL,
\* closes cs.done once and returns, and so it does on the quit signal; after
\* that no queue item is handled and nothing is signed: no variable changes.
ShutdownOnce ==
    /\ [][running = "running"]_vars
    /\ [](/\ exited.done <= 1
          /\ Exited <=> exited.done = 1
          /\ Exited <=> exited.walStopped)

\* a handler panicked while a message the node had signed was still queued
ShutdownOnceWitness ==
    /\ running = "panicked" /\ exited = [walStopped |-> TRUE, done |-> 1]
    /\ internalMsgQueue # <<>>

\* ------------------------------------------------------------------------
\* Fatal failures at commit

\* enterCommit left m: it panicked and set neither the step nor CommitRound
EnterCommitHalted(m) ==
    /\ m.panic
    /\ m.cs.Step = cs.Step /\ m.cs.CommitRound = cs.CommitRound
    /\ m.bs = blockStore

\* C15: enterCommit for a round whose precommits have no +2/3 majority halts
\* the node: it does not set Step = Commit or CommitRound and does not try to
\* finalize.
FatalCommitHalts ==
    \A round \in 0..RoundBound(cs.Height) :
        (/\ Live /\ cs.Step < RoundStepCommit
         /\ TwoThirdsMajority(Precommits(Machine(TRUE), round)) = NoVote)
            => EnterCommitHalted(enterCommit(Machine(TRUE), cs.Height, round))

\* ------------------------------------------------------------------------
\* The DKG dealer (dkg_dealer.go). The validators of the set are the
\* participants of a round; a message sent through sendMsgCb is broadcast to
\* every participant, the sender included.

NumValidators == Cardinality(Vals)

\* ValidatorSet.Size
Size(validators) == Cardinality(validators)

\* the addresses validators can have, in the order PKStore.Less gives them
DealerOrder == AddrOrder \o <<"a3", "a4">>

\* the index of a participant when every validator has one key in the
\* PKStore: the rank of its address among the addresses
IndexOf(addr) == (CHOOSE i \in 1..Len(DealerOrder) : DealerOrder[i] = addr) - 1

\* PK2Addr, and the key a dealer picks in Start
PK2Addr(addr, pk) == [Addr |-> addr, PK |-> pk]
OwnKey(d) == PK2Addr(d.addr, "pubkey")

\* PKStore.Add: an entry is not added when the store has one with the same
\* address and the same key
PKStoreAdd(s, newPk) == s \cup {newPk}

\* sort.Sort(d.pubKeys): the position of an entry is the number of entries
\* with a smaller address; entries with the address of the dealer other than
\* its own key are not among the inputs
SortedPosition(s, addr) == Cardinality({pk \in s : IndexOf(pk.Addr) < IndexOf(addr)})

\* the address of the entry at position idx of the sorted store
SortedAddr(s, idx) ==
    CHOOSE addr \in {pk.Addr : pk \in s} :
        /\ SortedPosition(s, addr) <= idx
        /\ idx < SortedPosition(s, addr) + Cardinality({pk \in s : pk.Addr = addr})

\* types.DKGData. Index is the dealer a response is about, Seq tells the
\* messages of one sender with equal payload apart.
DKGData(type, addr, data, toIndex, index, seq) ==
    [Type |-> type, Addr |-> addr, Data |-> data, ToIndex |-> toIndex,
     Index |-> index, Seq |-> seq]

\* kyber's dkg.DistKeyGenerator: its threshold, the deals it has processed, by
\* dealer index, the dealers with a complaint that no justification has
\* answered, and the dealers whose secret commits it has processed
NoInstance == [index |-> -1]
NewDistKeyGenerator(index, t) ==
    [index |-> index, t |-> t, deals |-> {}, complaints |-> {}, commitments |-> {}]
QUAL(instance) == (instance.deals \cup {instance.index}) \ instance.complaints
Certified(instance) == Cardinality(QUAL(instance)) >= instance.t
InstanceFinished(instance) == QUAL(instance) \subseteq instance.commitments

\* what one call of a handler gives out: the messages sent, the events fired,
\* the transitions called and what each of them returned, the error the handler
\* returns, and whether it panicked
NoOut ==
    [sent |-> {}, fired |-> <<>>, ran |-> <<>>, rets |-> <<>>, err |-> "nil",
     panic |-> FALSE]

\* GenerateTransitions, of the dealer and of the mocks
GenerateTransitions ==
    <<"SendDeals", "ProcessDeals", "ProcessResponses", "ProcessJustifications",
      "ProcessCommits", "ProcessComplaints", "ProcessReconstructCommits">>

\* NewDKGDealer. kind is the implementation: the dealer, a mock, or a
\* participant that deviates from the protocol. active is the coordinator's
\* entry for the round, first the choice of the order in which a range comes
\* to the entries it ranges over, lib the choice of what kyber and gob make of
\* data that is not what the protocol prescribes: an error, or what the code
\* expects of them.
NewDKGDealer(validators, addr, kind) ==
    [validators |-> validators, addr |-> addr, kind |-> kind, roundID |-> 0,
     suite |-> TRUE, maps |-> TRUE, pubKeys |-> {},
     participantID |-> 0, instance |-> NoInstance, transitions |-> <<>>,
     deals |-> {}, responses |-> {}, justifications |-> {}, commits |-> {},
     complaints |-> {}, reconstructCommits |-> {}, losers |-> <<>>,
     fired |-> {}, active |-> TRUE, lastErr |-> "nil", first |-> {},
     lib |-> "error", out |-> NoOut]

SendMsgCb(d, msg) == [d EXCEPT !.out.sent = @ \cup {msg}]

RECURSIVE SendAll(_, _)
SendAll(d, msgs) ==
    IF msgs = {} THEN d
    ELSE LET msg == CHOOSE x \in msgs : TRUE
         IN SendAll(SendMsgCb(d, msg), msgs \ {msg})

FireEvent(d, event) ==
    [d EXCEPT !.fired = @ \cup {event}, !.out.fired = Append(@, event)]

\* what a transition returns: (err, ready)
Return(d, err, ready) ==
    [d EXCEPT !.out.rets = Append(@, [err |-> err, ready |-> ready])]

\* what the last transition called returned
Returned(d) == d.out.rets[Len(d.out.rets)]

\* the error a method other than a transition returns
Err(d, err) == [d EXCEPT !.out.err = err]

\* a method is called on the nil instance
NilInstance(d) == [d EXCEPT !.out.panic = TRUE]

\* a method is called on a nil suite, an entry is assigned in a nil map
NilSuite(d) == [d EXCEPT !.out.panic = TRUE]
NilMap(d) == [d EXCEPT !.out.panic = TRUE]

\* Start: the round id, the keys, the transitions, the public key
Start(d) ==
    IF ~d.suite THEN NilSuite([d EXCEPT !.roundID = @ + 1])
    ELSE SendMsgCb([d EXCEPT !.roundID = @ + 1, !.transitions = GenerateTransitions],
                   DKGData("DKGPubKey", d.addr, "pubkey", -1, -1, 0))

\* ResetDKGData: the keys, the suites, the instance, the transitions, the
\* public keys and the messages stored are set to nil
ResetDKGData(d) ==
    [d EXCEPT !.suite = FALSE, !.maps = FALSE, !.instance = NoInstance,
              !.transitions = <<>>, !.pubKeys = {}, !.deals = {}, !.responses = {},
              !.justifications = {}, !.commits = {}, !.complaints = {},
              !.reconstructCommits = {}]

\* GetLosers; GetByAddress gives the validator of an address
GetLosers(d) == [j \in 1..Len(d.losers) |-> d.losers[j]]

\* ---- Phase I
IsReady(d) == Cardinality(d.pubKeys) = Size(d.validators)

\* the threshold GetDeals passes to dkg.NewDistKeyGenerator
DKGThreshold(validators) == (Size(validators) * 2) \div 3

\* the index the instance finds for the dealer: the position of its key
OwnIndex(d) == SortedPosition(d.pubKeys, d.addr)

\* the error of GetDeals: the instance is not created when the key of the
\* dealer is not among the keys
GetDealsErr(d) ==
    IF OwnKey(d) \in d.pubKeys THEN "nil" ELSE "failed to create dkgState instance"

\* GetDeals: the instance is created, the participant id is the index of the
\* deals, and there is one deal for every other participant
GetDeals(d) ==
    IF GetDealsErr(d) # "nil" THEN d
    ELSE SendAll([d EXCEPT !.instance = NewDistKeyGenerator(OwnIndex(d),
                                                            DKGThreshold(d.validators)),
                           !.participantID = OwnIndex(d)],
                 {DKGData("DKGDeal", d.addr,
                          IF d.kind = "deviating" /\ i = 0 THEN "invalid" ELSE "deal",
                          i, OwnIndex(d), 0) :
                     i \in (0..(Cardinality(d.pubKeys) - 1)) \ {OwnIndex(d)}})

\* SendDeals, and SendDeals of DKGMockDontSendAnyDeal
SendDeals(d) ==
    IF ~IsReady(d) THEN Return(d, "nil", FALSE)
    ELSE IF d.kind = "DKGMockDontSendAnyDeal" THEN Return(d, "nil", TRUE)
    ELSE Return(GetDeals(FireEvent(d, "EventDKGPubKeyReceived")), GetDealsErr(d), TRUE)

IsDealsReady(d) == Cardinality(d.deals) >= Size(d.validators) - 1

\* the deals held that were encrypted for this participant
DecryptableDeals(d) == {deal \in d.deals : deal.ToIndex = d.instance.index}

\* the deals GetResponses processes: all of them, or, when one of them fails
\* ProcessDeal, those the range over the map came to before it
ProcessedDeals(d) ==
    IF DecryptableDeals(d) = d.deals THEN d.deals
    ELSE {deal \in DecryptableDeals(d) : deal.Addr \in d.first}

\* instance.ProcessDeal for every deal of deals
ProcessDeal(d, deals) ==
    [d EXCEPT !.instance.deals = @ \cup {deal.Index : deal \in deals},
              !.instance.complaints =
                  @ \cup {deal.Index : deal \in {x \in deals : x.Data = "invalid"}}]

\* GetResponses: one response for every deal processed
GetResponses(d) ==
    SendAll(ProcessDeal(d, ProcessedDeals(d)),
            {DKGData("DKGResponse", d.addr,
                     IF deal.Data = "invalid" THEN "complaint" ELSE "approved",
                     -1, deal.Index, 0) : deal \in ProcessedDeals(d)})

ProcessDeals(d) ==
    IF ~IsDealsReady(d) THEN Return(d, "nil", FALSE)
    ELSE IF d.instance = NoInstance THEN NilInstance(d)
    ELSE IF DecryptableDeals(d) # d.deals
    THEN Return(GetResponses(d), "failed to ProcessDeal", TRUE)
    ELSE Return(FireEvent(GetResponses(d), "EventDKGDealsProcessed"), "nil", TRUE)

\* IsResponsesReady with one response of every other participant
IsResponsesReadyMutLinear(d) ==
    Cardinality(d.responses) >= Size(d.validators) - 1

IsResponsesReady(d) ==
    Cardinality(d.responses) >= (Size(d.validators) - 1) * (Size(d.validators) - 1)

\* the responses instance.ProcessResponse has a deal for
KnownResponses(d) ==
    {resp \in d.responses : resp.Index \in d.instance.deals \cup {d.instance.index}}

\* instance.ProcessResponse for every response: a complaint is held against
\* the dealer; the justification is for a complaint against the own deal, and a
\* participant that deviates withholds it
ProcessResponse(d) ==
    [d EXCEPT !.instance.complaints =
                  @ \cup {resp.Index : resp \in {x \in d.responses : x.Data = "complaint"}}]

Justifies(d, resp) ==
    resp.Data = "complaint" /\ resp.Index = d.instance.index /\ d.kind # "deviating"

\* what the participants that do not follow the protocol send on top: the
\* one that deviates sends commits with its justifications, whatever its
\* instance says; the one that complains sends a complaint without data for
\* the commits of every other participant with its own commits
Deviation(d, type) ==
    IF d.kind = "deviating" /\ type = "DKGJustification"
    THEN {DKGData("DKGCommits", d.addr, "commits", -1, -1, 0)}
    ELSE IF d.kind = "complaining" /\ type = "DKGCommits"
    THEN {DKGData("DKGComplaint", d.addr, "nil", -1, -1, seq) :
             seq \in 1..(NumValidators - 1)}
    ELSE {}

\* GetJustifications: one message for every response, with data or without
GetJustifications(d) ==
    SendAll(ProcessResponse(d),
            {DKGData("DKGJustification", d.addr,
                     IF Justifies(d, resp) THEN "justification" ELSE "nil",
                     -1, -1, 0) : resp \in d.responses}
            \cup Deviation(d, "DKGJustification"))

ProcessResponses(d) ==
    IF ~IsResponsesReady(d) THEN Return(d, "nil", FALSE)
    ELSE IF d.instance = NoInstance THEN NilInstance(d)
    ELSE IF KnownResponses(d) # d.responses
    THEN Return(d, "failed to ProcessResponse", TRUE)
    ELSE Return(FireEvent(GetJustifications(d), "EventDKGResponsesProcessed"),
                "nil", TRUE)

IsJustificationsReady(d) == Cardinality(d.justifications) >= Size(d.validators)

\* instance.ProcessJustification for every justification that has data
ProcessJustification(d) ==
    [d EXCEPT !.instance.complaints =
                  @ \ {IndexOf(j.Addr) : j \in {x \in d.justifications : x.Data # "nil"}}]

\* the addresses of pubKeys whose index is not in QUAL, in the order of pubKeys
RECURSIVE NotInQUAL(_, _)
NotInQUAL(d, idx) ==
    IF idx >= Cardinality(d.pubKeys) THEN <<>>
    ELSE IF idx \in QUAL(d.instance) THEN NotInQUAL(d, idx + 1)
    ELSE <<SortedAddr(d.pubKeys, idx)>> \o NotInQUAL(d, idx + 1)

\* GetCommits on its receiver, which is a copy of the dealer
GetCommitsOnCopy(d) ==
    IF d.instance = NoInstance THEN NilInstance(d)
    ELSE IF ~Certified(ProcessJustification(d).instance)
    THEN Err(FireEvent(ProcessJustification(d), "EventDKGJustificationsProcessed"),
             "instance is not certified")
    ELSE IF Cardinality(QUAL(ProcessJustification(d).instance)) < Size(d.validators)
    THEN Err([FireEvent(FireEvent(ProcessJustification(d),
                                  "EventDKGJustificationsProcessed"),
                        "EventDKGInstanceCertified")
                 EXCEPT !.losers = @ \o NotInQUAL(ProcessJustification(d), 0)],
             "some of participants failed to complete phase I")
    ELSE Err(FireEvent(FireEvent(ProcessJustification(d),
                                 "EventDKGJustificationsProcessed"),
                       "EventDKGInstanceCertified"),
             "nil")

\* GetCommits has a value receiver: it runs on a copy of the dealer. What it
\* does through the pointers and maps of the copy (the instance, the event
\* firer) is done to the dealer; what it assigns to the fields of the copy,
\* losers, is lost when it returns.
GetCommits(d) == [GetCommitsOnCopy(d) EXCEPT !.losers = d.losers]

\* ProcessJustifications: the commits of GetCommits are sent. GetCommits of
\* DKGMockDontSendOneCommit takes the last commitment off the commits it got,
\* which are nil when GetCommits returned an error.
ProcessJustifications(d) ==
    IF ~IsJustificationsReady(d) THEN Return(d, "nil", FALSE)
    ELSE IF GetCommits(d).out.panic THEN GetCommits(d)
    ELSE IF GetCommits(d).out.err # "nil"
    THEN IF d.kind = "DKGMockDontSendOneCommit" THEN NilInstance(GetCommits(d))
         ELSE Return(GetCommits(d), GetCommits(d).out.err, TRUE)
    ELSE Return(SendAll(GetCommits(d),
                        {DKGData("DKGCommits", d.addr,
                                 IF d.kind = "DKGMockDontSendOneCommit"
                                 THEN "short" ELSE "commits",
                                 -1, -1, 0)}
                        \cup Deviation(d, "DKGCommits")),
                "nil", TRUE)

\* ---- Phase II

\* the commits held that lack a commitment
ShortCommits(d) == {c \in d.commits : c.Data = "short"}

\* instance.ProcessSecretCommits for every commits held: those that lack a
\* commitment are not taken
ProcessSecretCommits(d) ==
    [d EXCEPT !.instance.commitments =
                  @ \cup {IndexOf(c.Addr) : c \in d.commits \ ShortCommits(d)}]

\* the messages of ProcessCommits: none when no commits raised a complaint,
\* else one for every commits held, with data for those that raised one
ComplaintMessages(d) ==
    IF ShortCommits(d) = {} THEN {}
    ELSE {DKGData("DKGComplaint", d.addr,
                  IF c \in ShortCommits(d) THEN "complaint" ELSE "nil",
                  -1, IndexOf(c.Addr), c.Seq) : c \in d.commits}

\* ProcessCommits: the commits of a dealer outside QUAL are an error, commits
\* that lack a commitment an error or a complaint
ProcessCommits(d) ==
    IF d.instance = NoInstance THEN NilInstance(d)
    ELSE IF Cardinality(d.commits) < Cardinality(QUAL(d.instance))
    THEN Return(d, "nil", FALSE)
    ELSE IF \E c \in d.commits : IndexOf(c.Addr) \notin QUAL(d.instance)
    THEN Return(d, "failed to ProcessSecretCommits", TRUE)
    ELSE IF ShortCommits(d) # {} /\ d.lib = "error"
    THEN Return(d, "failed to ProcessSecretCommits", TRUE)
    ELSE Return(SendAll(FireEvent(ProcessSecretCommits(d), "EventDKGCommitsProcessed"),
                        ComplaintMessages(d)),
                "nil", TRUE)

\* the complaints held that have data
ComplaintCommits(d) == {c \in d.complaints : c.Data # "nil"}

\* the reconstruct commit ProcessComplaints sends for a complaint: its data
\* is the complaint when there is a reconstruction
ReconstructMessage(d, c) ==
    DKGData("DKGReconstructCommit", d.addr,
            IF c \in ComplaintCommits(d) THEN "complaint" ELSE "nil",
            c.Index, IndexOf(c.Addr), c.Seq)

\* ProcessComplaints: one reconstruct commit for every complaint; when
\* instance.ProcessComplaintCommits fails, those for the complaints that came
\* before have been sent
ProcessComplaints(d) ==
    IF d.instance = NoInstance THEN NilInstance(d)
    ELSE IF Cardinality(d.complaints) < Cardinality(QUAL(d.instance)) - 1
    THEN Return(d, "nil", FALSE)
    ELSE IF ComplaintCommits(d) # {} /\ d.lib = "error"
    THEN Return(SendAll(d, {ReconstructMessage(d, c) :
                               c \in {x \in d.complaints \ ComplaintCommits(d) :
                                          x.Addr \in d.first}}),
                "failed to ProcessComplaintCommits", TRUE)
    ELSE Return(FireEvent(SendAll(d, {ReconstructMessage(d, c) : c \in d.complaints}),
                          "EventDKGComplaintProcessed"),
                "nil", TRUE)

\* ProcessReconstructCommits: a reconstruct commit whose data is a complaint
\* is an error of the instance, or has no share to reconstruct from
ProcessReconstructCommits(d) ==
    IF d.instance = NoInstance THEN NilInstance(d)
    ELSE IF Cardinality(d.reconstructCommits) < Cardinality(QUAL(d.instance)) - 1
    THEN Return(d, "nil", FALSE)
    ELSE IF (\E rc \in d.reconstructCommits : rc.Data # "nil") /\ d.lib = "error"
    THEN Return(d, "failed to ProcessReconstructCommits", TRUE)
    ELSE IF ~InstanceFinished(d.instance)
    THEN Return(FireEvent(d, "EventDKGReconstructCommitsProcessed"),
                "dkgState round is finished, but dkgState instance is not ready", TRUE)
    ELSE Return(FireEvent(d, "EventDKGReconstructCommitsProcessed"), "nil", TRUE)

\* GetVerifier: the threshold and the size of the verifier, an error while the
\* instance has not finished
errDKGVerifierNotReady == [err |-> "dkgState is not ready", t |-> 0, n |-> 0]

\* the threshold GetVerifier passes to types.NewBLSVerifier
VerifierThreshold(validators) == (Size(validators) \div 3) * 2

GetVerifier(d) ==
    IF d.instance = NoInstance THEN errDKGVerifierNotReady
    ELSE IF ~InstanceFinished(d.instance) THEN errDKGVerifierNotReady
    ELSE [err |-> "nil", t |-> VerifierThreshold(d.validators),
          n |-> Size(d.validators)]

\* ---- Transit

\* tn(): the transition at the head of the queue is called
CallTransition(d, tn) ==
    IF tn = "SendDeals" THEN SendDeals(d)
    ELSE IF tn = "ProcessDeals" THEN ProcessDeals(d)
    ELSE IF tn = "ProcessResponses" THEN ProcessResponses(d)
    ELSE IF tn = "ProcessJustifications" THEN ProcessJustifications(d)
    ELSE IF tn = "ProcessCommits" THEN ProcessCommits(d)
    ELSE IF tn = "ProcessComplaints" THEN ProcessComplaints(d)
    ELSE ProcessReconstructCommits(d)

Called(d, tn) == CallTransition([d EXCEPT !.out.ran = Append(@, tn)], tn)

RECURSIVE TransitMutSkipNotReady(_)
TransitMutSkipNotReady(d) ==
    IF d.transitions = <<>> THEN Err(d, "nil")
    ELSE IF Called(d, Head(d.transitions)).out.panic
    THEN Called(d, Head(d.transitions))
    ELSE IF Returned(Called(d, Head(d.transitions))).err # "nil"
    THEN Err(Called(d, Head(d.transitions)),
             Returned(Called(d, Head(d.transitions))).err)
    ELSE TransitMutSkipNotReady([Called(d, Head(d.transitions))
                                    EXCEPT !.transitions = Tail(@)])

\* Transit: the transition at the head is called; not ready, Transit returns
\* nil; ready with an error, Transit returns the error; ready without, the
\* transition leaves the queue and the next one is called
RECURSIVE Transit(_)
Transit(d) ==
    IF d.transitions = <<>> THEN Err(d, "nil")
    ELSE IF Called(d, Head(d.transitions)).out.panic
    THEN Called(d, Head(d.transitions))
    ELSE IF ~Returned(Called(d, Head(d.transitions))).ready
    THEN Err(Called(d, Head(d.transitions)), "nil")
    ELSE IF Returned(Called(d, Head(d.transitions))).err # "nil"
    THEN Err(Called(d, Head(d.transitions)),
             Returned(Called(d, Head(d.transitions))).err)
    ELSE Transit([Called(d, Head(d.transitions)) EXCEPT !.transitions = Tail(@)])

\* ---- The handlers

HandleDKGPubKey(d, msg) ==
    IF ~d.suite THEN NilSuite(d)
    ELSE Transit([d EXCEPT !.pubKeys = PKStoreAdd(@, PK2Addr(msg.Addr, msg.Data))])

HandleDKGDeal(d, msg) ==
    IF ~d.suite THEN NilSuite(d)
    ELSE IF d.participantID # msg.ToIndex THEN d
    ELSE IF \E deal \in d.deals : deal.Addr = msg.Addr THEN d
    ELSE IF ~d.maps THEN NilMap(d)
    ELSE Transit([d EXCEPT !.deals = @ \cup {msg}])

HandleDKGResponse(d, msg) ==
    IF d.participantID = IndexOf(msg.Addr) THEN d
    ELSE Transit([d EXCEPT !.responses = @ \cup {msg}])

\* HandleDKGJustification without the look-up of the sender: the justification
\* takes the place of the one held
HandleDKGJustificationMutOverwrite(d, msg) ==
    IF ~d.maps THEN NilMap(d)
    ELSE Transit([d EXCEPT !.justifications =
                               {j \in @ : j.Addr # msg.Addr} \cup {msg}])

HandleDKGJustification(d, msg) ==
    IF \E j \in d.justifications : j.Addr = msg.Addr THEN d
    ELSE IF ~d.maps THEN NilMap(d)
    ELSE Transit([d EXCEPT !.justifications = @ \cup {msg}])

HandleDKGCommit(d, msg) ==
    IF ~d.suite THEN NilSuite(d)
    ELSE Transit([d EXCEPT !.commits = @ \cup {msg}])

HandleDKGComplaint(d, msg) ==
    IF msg.Data # "nil" /\ ~d.suite THEN NilSuite(d)
    ELSE Transit([d EXCEPT !.complaints = @ \cup {msg}])

HandleDKGReconstructCommit(d, msg) ==
    IF msg.Data # "nil" /\ d.lib = "error" THEN Err(d, "failed to decode complaint")
    ELSE Transit([d EXCEPT !.reconstructCommits = @ \cup {msg}])

HandleDKGData(d, msg) ==
    IF msg.Type = "DKGPubKey" THEN HandleDKGPubKey(d, msg)
    ELSE IF msg.Type = "DKGDeal" THEN HandleDKGDeal(d, msg)
    ELSE IF msg.Type = "DKGResponse" THEN HandleDKGResponse(d, msg)
    ELSE IF msg.Type = "DKGJustification" THEN HandleDKGJustification(d, msg)
    ELSE IF msg.Type = "DKGCommits" THEN HandleDKGCommit(d, msg)
    ELSE IF msg.Type = "DKGComplaint" THEN HandleDKGComplaint(d, msg)
    ELSE HandleDKGReconstructCommit(d, msg)

\* ---- The coordinator: a message goes to the handler of its type; when the
\* handler returns an error the round is aborted and its dealer is given no
\* further message. A panic ends the receive routine the handler runs in.
Aborted(d) ==
    [d EXCEPT !.active = ~(d.out.panic \/ d.out.err # "nil"),
              !.lastErr = IF d.out.panic THEN "panic" ELSE d.out.err]

HandleOffChainShareMutNoAbort(d, msg) ==
    [Aborted(HandleDKGData([d EXCEPT !.out = NoOut], msg)) EXCEPT !.active = TRUE]

HandleOffChainShare(d, msg) ==
    IF ~d.active THEN [d EXCEPT !.out = NoOut]
    ELSE Aborted(HandleDKGData([d EXCEPT !.out = NoOut], msg))

\* ---- A DKG round of the validators. The dealers start in any order; a
\* message sent is broadcast and reaches every participant, the sender
\* included, after the participant has started: the messages of one sender in
\* the order they were sent, those of different senders in any order.

DKGScenarios == {"honest", "silent", "deviating", "complaining", "oneCommit"}

\* the scenarios in which the network is synchronous
Synchronous == {"complaining", "oneCommit"}

\* the scenarios in which the messages of a stage arrive in one order
Ordered == {"oneCommit"}

\* the dealer of a2 is the dealer, DKGMockDontSendAnyDeal or
\* DKGMockDontSendOneCommit, or it deviates or complains
KindOf(scenario, addr) ==
    IF addr # "a2" \/ scenario = "honest" THEN "DKGDealer"
    ELSE IF scenario = "silent" THEN "DKGMockDontSendAnyDeal"
    ELSE IF scenario = "oneCommit" THEN "DKGMockDontSendOneCommit"
    ELSE scenario

HonestDealers == {a \in Vals : dkg.dealers[a].kind = "DKGDealer"}

\* the handler ignores the message, now and whenever it comes later: a deal
\* for another participant or a second deal of its sender, an own response, a
\* second justification of its sender
Ignored(d, msg) ==
    IF msg.Type = "DKGDeal"
    THEN \/ msg.ToIndex \notin {d.participantID, IndexOf(d.addr)}
         \/ d.instance # NoInstance /\ msg.ToIndex # d.participantID
         \/ d.kind = "DKGMockDontSendAnyDeal" /\ msg.ToIndex # d.participantID
         \/ \E deal \in d.deals : deal.Addr = msg.Addr
    ELSE IF msg.Type = "DKGResponse"
    THEN d.instance # NoInstance /\ d.participantID = IndexOf(msg.Addr)
    ELSE IF msg.Type = "DKGJustification"
    THEN \E j \in d.justifications : j.Addr = msg.Addr
    ELSE FALSE

Broadcast(dealers, net, msgs) ==
    [b \in Vals |-> {msg \in net[b] \cup msgs : ~Ignored(dealers[b], msg)}]

DKGStart(a) ==
    /\ dkg.dealers[a].roundID = 0
    /\ dkg' = [dkg EXCEPT !.dealers[a] = [Start(@) EXCEPT !.out = NoOut],
                          !.net = Broadcast(dkg.dealers, @, Start(dkg.dealers[a]).out.sent)]

\* the orders in which a range can come to its entries: that over the deals,
\* for the messages whose handler can get to ProcessDeals, and that over the
\* complaints when one of them has data
RangeOrders(d, msg) ==
    IF msg.Type \in {"DKGPubKey", "DKGDeal"} THEN SUBSET (d.validators \ {d.addr})
    ELSE IF msg.Type = "DKGComplaint" /\ (msg.Data # "nil" \/ ComplaintCommits(d) # {})
    THEN SUBSET d.validators
    ELSE {{}}

\* what the libraries can make of the data the handler of msg comes to: there
\* is a choice when commits lack a commitment, or a complaint or a reconstruct
\* commit has data
LibOutcomes(d, msg) ==
    IF \/ msg.Type \in {"DKGCommits", "DKGComplaint", "DKGReconstructCommit"}
          /\ msg.Data \notin {"nil", "commits"}
       \/ msg.Type = "DKGCommits" /\ ShortCommits(d) # {}
       \/ msg.Type = "DKGComplaint" /\ ComplaintCommits(d) # {}
       \/ msg.Type = "DKGReconstructCommit"
          /\ \E rc \in d.reconstructCommits : rc.Data # "nil"
    THEN {"error", "accepted"}
    ELSE {"error"}

\* the dealer after the coordinator gave it msg
Received(d, msg, first, lib) ==
    [HandleOffChainShare([d EXCEPT !.first = first, !.lib = lib], msg)
        EXCEPT !.first = {}, !.lib = "error"]

MapOrders(a, msg) == RangeOrders(dkg.dealers[a], msg)

Dispatched(a, msg, first, lib) == Received(dkg.dealers[a], msg, first, lib)

\* the stage a message belongs to
TypeRank(type) ==
    CHOOSE i \in 1..7 :
        <<"DKGPubKey", "DKGDeal", "DKGResponse", "DKGJustification", "DKGCommits",
          "DKGComplaint", "DKGReconstructCommit">>[i] = type

\* msg can be delivered to a while x waits for b: a message waits for the
\* earlier messages of its sender to the same participant, for all messages
\* of the stages before when the network is synchronous, and for the messages
\* of its type to the participants before and of the senders before when the
\* stages are ordered
Before(x, b, msg, a) ==
    \/ /\ b = a
       /\ x.Addr = msg.Addr
       /\ \/ TypeRank(x.Type) < TypeRank(msg.Type)
          \/ x.Type = msg.Type /\ x.Seq < msg.Seq
    \/ /\ dkg.scenario \in Synchronous
       /\ TypeRank(x.Type) < TypeRank(msg.Type)
    \/ /\ dkg.scenario \in Ordered
       /\ x.Type = msg.Type
       /\ \/ IndexOf(b) < IndexOf(a)
          \/ b = a /\ IndexOf(x.Addr) < IndexOf(msg.Addr)
          \/ b = a /\ x.Addr = msg.Addr /\ x.Index < msg.Index

DKGDeliver(a, msg) ==
    /\ dkg.dealers[a].roundID > 0
    /\ \A b \in Vals : \A x \in dkg.net[b] : ~Before(x, b, msg, a)
    /\ \E first \in MapOrders(a, msg) : \E lib \in LibOutcomes(dkg.dealers[a], msg) :
          dkg' = [dkg EXCEPT
                     !.dealers[a] = Dispatched(a, msg, first, lib),
                     !.net = Broadcast([dkg.dealers EXCEPT ![a] = Dispatched(a, msg, first, lib)],
                                       [@ EXCEPT ![a] = @ \ {msg}],
                                       Dispatched(a, msg, first, lib).out.sent)]

StartDealer ==
    /\ \E a \in Vals : DKGStart(a)
    /\ UNCHANGED <<cs, internalMsgQueue, timeoutTicker, blockStore, wal, evpool,
                   verifier, config, privValidator, running, peerVotes, exited,
                   other, scope, exec>>

DeliverDKGData ==
    /\ \E a \in Vals : \E msg \in dkg.net[a] : DKGDeliver(a, msg)
    /\ UNCHANGED <<cs, internalMsgQueue, timeoutTicker, blockStore, wal, evpool,
                   verifier, config, privValidator, running, peerVotes, exited,
                   other, scope, exec>>

NextDKG ==
    \/ StartDealer
    \/ DeliverDKGData

InitDKG ==
    /\ Started
    /\ verifier = FALSE
    /\ other = NoNode
    /\ privValidator = "a0"
    /\ exec = NoExecutor
    /\ scope = [heights |-> 0, rounds |-> 0, laterRounds |-> 0, votes |-> 0,
                laterVotes |-> 0, blocks |-> {}, signs |-> {"ok"}]
    /\ \E scenario \in DKGScenarios :
          dkg = [scenario |-> scenario,
                 dealers |-> [a \in Vals |->
                                 NewDKGDealer(Vals, a, KindOf(scenario, a))],
                 net |-> [a \in Vals |-> {}]]

SpecDKG == InitDKG /\ [][NextDKG]_vars

\* every dealer has started and every message sent has been delivered to every
\* participant: nothing more happens in the round
AllDelivered == \A a \in Vals : dkg.dealers[a].roundID > 0 /\ dkg.net[a] = {}

\* ------------------------------------------------------------------------
\* Properties of the DKG round

\* the dealer has every participant in QUAL, no losers, and a verifier with the
\* threshold floor(2n/3)
Complete(d) ==
    /\ d.instance # NoInstance
    /\ Cardinality(QUAL(d.instance)) = NumValidators
    /\ GetLosers(d) = <<>>
    /\ GetVerifier(d).err = "nil"
    /\ GetVerifier(d).t = (2 * NumValidators) \div 3

\* C16: when all dealers follow the protocol, then in whatever order the
\* messages were delivered, once every message sent has been delivered to every
\* dealer, every dealer has |QUAL| = n, an empty losers list and a verifier
\* with t = floor(2n/3).
DKGCompleteness ==
    (dkg.scenario = "honest" /\ AllDelivered)
        => \A a \in Vals : Complete(dkg.dealers[a])

\* what the transitions do that others can see: the events they fire and the
\* types of the messages they send
StageEffects ==
    [SendDeals |-> {"EventDKGPubKeyReceived", "DKGDeal"},
     ProcessDeals |-> {"EventDKGDealsProcessed", "DKGResponse"},
     ProcessResponses |-> {"EventDKGResponsesProcessed", "DKGJustification"},
     ProcessJustifications |->
         {"EventDKGJustificationsProcessed", "EventDKGInstanceCertified", "DKGCommits"},
     ProcessCommits |-> {"EventDKGCommitsProcessed", "DKGComplaint"},
     ProcessComplaints |-> {"EventDKGComplaintProcessed", "DKGReconstructCommit"},
     ProcessReconstructCommits |-> {"EventDKGReconstructCommitsProcessed"}]

\* the queue is what is left of the generated transitions, in their order
InOrderQueue(d) ==
    \E k \in 0..Len(GenerateTransitions) :
        d.transitions = SubSeq(GenerateTransitions, k + 1, Len(GenerateTransitions))

\* the transition at the head of the queue is not ready, and calling it
\* changes nothing
NotReadyNoOp(d) ==
    /\ ~Called([d EXCEPT !.out = NoOut], Head(d.transitions)).out.panic
    /\ Called([d EXCEPT !.out = NoOut], Head(d.transitions)).out.rets
           = <<[err |-> "nil", ready |-> FALSE]>>
    /\ [Called([d EXCEPT !.out = NoOut], Head(d.transitions)) EXCEPT !.out = NoOut]
           = [d EXCEPT !.out = NoOut]

\* the dealer of the protocol, mocked or not
FollowsProtocol(d) ==
    d.kind \in {"DKGDealer", "DKGMockDontSendAnyDeal", "DKGMockDontSendOneCommit"}

\* a handler took the dealer from d to r: the transitions called are those at
\* the head of the queue, in their order; those that were ready and returned no
\* error, and only those, have left the queue; at most the last one called
\* stays; every event fired and message sent is one of a transition called;
\* and when Transit returned nil the queue is empty or its head is not ready
TransitInOrder(d, r) ==
    /\ Len(r.transitions) <= Len(d.transitions)
    /\ r.transitions = SubSeq(d.transitions,
                              Len(d.transitions) - Len(r.transitions) + 1,
                              Len(d.transitions))
    /\ Len(r.out.ran) <= Len(d.transitions)
    /\ \A i \in 1..Len(r.out.ran) : r.out.ran[i] = d.transitions[i]
    /\ Len(r.out.rets) = (IF r.out.panic THEN Len(r.out.ran) - 1 ELSE Len(r.out.ran))
    /\ \A i \in 1..Len(r.out.rets) :
          (i <= Len(d.transitions) - Len(r.transitions))
              <=> (r.out.rets[i].ready /\ r.out.rets[i].err = "nil")
    /\ Len(r.out.ran) <= Len(d.transitions) - Len(r.transitions) + 1
    /\ \A j \in 1..Len(r.out.fired) :
          \E i \in 1..Len(r.out.ran) : r.out.fired[j] \in StageEffects[r.out.ran[i]]
    /\ FollowsProtocol(d) =>
          \A msg \in r.out.sent :
              \E i \in 1..Len(r.out.ran) : msg.Type \in StageEffects[r.out.ran[i]]
    /\ (r.out.ran # <<>> /\ ~r.out.panic /\ r.out.err = "nil" /\ r.transitions # <<>>)
          => NotReadyNoOp(r)

\* C17: the transitions run in the order SendDeals, ProcessDeals,
\* ProcessResponses, ProcessJustifications, ProcessCommits, ProcessComplaints,
\* ProcessReconstructCommits: whatever message a handler is given, a transition
\* runs after those before it have left the queue, a head that is not ready
\* leaves queue and dealer as they are, a transition that is ready and returns
\* no error leaves the queue once, and when Transit returns nil the queue is
\* empty or its head is not ready.
TransitionOrder ==
    \A a \in Vals :
        dkg.dealers[a].roundID > 0 =>
            /\ InOrderQueue(dkg.dealers[a])
            /\ \A msg \in dkg.net[a] : \A first \in MapOrders(a, msg) :
                  \A lib \in LibOutcomes(dkg.dealers[a], msg) :
                     TransitInOrder(dkg.dealers[a],
                                    HandleDKGData([dkg.dealers[a] EXCEPT !.out = NoOut,
                                                                         !.first = first,
                                                                         !.lib = lib],
                                                  msg))

\* a dealer has run all its transitions, the last of them alone, and one
\* message took another dealer through two of them
TransitionOrderWitness ==
    /\ dkg.scenario # "none"
    /\ \E a \in Vals : /\ dkg.dealers[a].transitions = <<>>
                       /\ dkg.dealers[a].out.ran = <<"ProcessReconstructCommits">>
    /\ \E a \in Vals : Len(dkg.dealers[a].out.ran) >= 2
                       /\ Len(dkg.dealers[a].out.rets) >= 2
                       /\ dkg.dealers[a].out.rets[1].ready

\* the call that took the dealer from d to r ran no transition, sent no message,
\* fired no event and left the dealer as it was
NothingDone(d, r) == r.out = NoOut /\ [r EXCEPT !.out = d.out] = d

\* the last transition called reported that it was ready, with an error
ReadyWithError(r) ==
    /\ ~r.out.panic
    /\ r.out.rets # <<>>
    /\ Returned(r).ready
    /\ Returned(r).err # "nil"

\* C18: when a transition reports ready with an error the round is aborted:
\* whatever message arrives afterwards, the dealer runs no transition, sends no
\* message and fires no event.
RoundAborted ==
    \A a \in Vals :
        /\ dkg.dealers[a].lastErr # "nil" =>
              \A later \in dkg.net[a] :
                  NothingDone(dkg.dealers[a], HandleOffChainShare(dkg.dealers[a], later))
        /\ \A msg \in dkg.net[a] : \A first \in MapOrders(a, msg) :
              \A lib \in LibOutcomes(dkg.dealers[a], msg) :
                 ReadyWithError(Dispatched(a, msg, first, lib)) =>
                     /\ Dispatched(a, msg, first, lib).lastErr # "nil"
                     /\ \A later \in (dkg.net[a] \ {msg})
                                       \cup Dispatched(a, msg, first, lib).out.sent :
                           NothingDone(Dispatched(a, msg, first, lib),
                                       HandleOffChainShare(Dispatched(a, msg, first, lib),
                                                           later))

\* a round was aborted because phase I was not completed, and there are
\* messages that have not arrived at its dealer yet
RoundAbortedWitness ==
    /\ dkg.scenario # "none"
    /\ \E a \in Vals :
          /\ dkg.dealers[a].lastErr = "some of participants failed to complete phase I"
          /\ ReadyWithError(dkg.dealers[a])
          /\ dkg.net[a] # {}

\* the validators whose index is not in QUAL
NotQualified(d) == {a \in Vals : IndexOf(a) \notin QUAL(d.instance)}

\* C19: when ProcessJustifications has run with a certified instance whose
\* QUAL has fewer than n members and has returned the error that phase I was
\* not completed, GetLosers returns exactly the validators whose index is not
\* in QUAL.
LosersSurfaced ==
    \A a \in Vals :
        (/\ dkg.dealers[a].lastErr = "some of participants failed to complete phase I"
         /\ Certified(dkg.dealers[a].instance))
            => {GetLosers(dkg.dealers[a])[j] : j \in 1..Len(GetLosers(dkg.dealers[a]))}
                  = NotQualified(dkg.dealers[a])

\* C20: when one validator publishes its public key and sends no deal
\* (DKGMockDontSendAnyDeal) and the other dealers follow the protocol, then,
\* once every message sent has been delivered, each of the other dealers has
\* |QUAL| = n-1, the silent validator among its losers, and its round was
\* aborted with the error that phase I was not completed.
SilentDealerExcluded ==
    (dkg.scenario = "silent" /\ AllDelivered) =>
        \A a \in HonestDealers :
            /\ dkg.dealers[a].instance # NoInstance
            /\ Cardinality(QUAL(dkg.dealers[a].instance)) = NumValidators - 1
            /\ \E j \in 1..Len(GetLosers(dkg.dealers[a])) :
                  dkg.dealers[GetLosers(dkg.dealers[a])[j]].kind
                      = "DKGMockDontSendAnyDeal"
            /\ dkg.dealers[a].lastErr = "some of participants failed to complete phase I"

\* ------------------------------------------------------------------------
\* One dealer and its environment. The dealer is that of the second validator
\* of a set of n validators, of the only one when n = 1. The other participants
\* are the environment: it sends the dealer the messages of a pool, each once,
\* those of one sender and type in the order of Seq. The dealer can be reset
\* once, and started again after that.

ValidatorsOf(n) == {DealerOrder[i] : i \in 1..n}
Self(n) == IF n = 1 THEN "a0" ELSE "a1"

\* public keys, among them a second key and a repeated key of a0, and deals,
\* among them a second deal of a0 and a deal for the participant of index 0
KeysPool ==
    {DKGData("DKGPubKey", a, "pubkey", -1, -1, 0) : a \in ValidatorsOf(3)}
    \cup {DKGData("DKGPubKey", "a0", "otherkey", -1, -1, 0),
          DKGData("DKGPubKey", "a0", "pubkey", -1, -1, 1),
          DKGData("DKGDeal", "a0", "deal", 1, 0, 0),
          DKGData("DKGDeal", "a0", "invalid", 1, 0, 1),
          DKGData("DKGDeal", "a2", "deal", 1, 2, 0),
          DKGData("DKGDeal", "a2", "deal", 0, 2, 0)}

\* the messages the participants of a round of n validators send to the dealer
\* of self when all follow the protocol, the dealer's own among them, with a
\* second deal and a second justification of a0, and a complaint and a
\* reconstruct commit without data of every other participant
StagesPool(n, self) ==
    {DKGData("DKGPubKey", a, "pubkey", -1, -1, 0) : a \in ValidatorsOf(n)}
    \cup {DKGData("DKGDeal", a, "deal", IndexOf(self), IndexOf(a), 0) :
             a \in ValidatorsOf(n) \ {self}}
    \cup {DKGData("DKGDeal", a, "deal", IndexOf(self), IndexOf(a), 1) :
             a \in ValidatorsOf(n) \cap {"a0"}}
    \cup {DKGData("DKGResponse", p[1], "approved", -1, IndexOf(p[2]), IndexOf(p[2])) :
             p \in {q \in ValidatorsOf(n) \X ValidatorsOf(n) : q[1] # q[2]}}
    \cup {DKGData("DKGJustification", a, "nil", -1, -1, 0) : a \in ValidatorsOf(n)}
    \cup {DKGData("DKGJustification", a, "justification", -1, -1, 1) :
             a \in ValidatorsOf(n) \cap {"a0"}}
    \cup {DKGData("DKGCommits", a, "commits", -1, -1, 0) : a \in ValidatorsOf(n)}
    \cup {DKGData("DKGComplaint", a, "nil", -1, -1, 0) :
             a \in ValidatorsOf(n) \ {self}}
    \cup {DKGData("DKGReconstructCommit", a, "nil", -1, -1, 0) :
             a \in ValidatorsOf(n) \ {self}}

\* the messages of a round of three validators in which the commits of a2
\* lack a commitment: those of phase I, the commits, the complaints of a0 and
\* a2 against the commits of a2 and one of a0 without data, and the reconstruct
\* commits made of them
ComplaintsPool(self) ==
    {msg \in StagesPool(3, self) :
        /\ TypeRank(msg.Type) < TypeRank("DKGCommits")
        /\ msg.Type \in {"DKGDeal", "DKGJustification"} => msg.Seq = 0}
    \cup {DKGData("DKGCommits", a, IF a = "a2" THEN "short" ELSE "commits", -1, -1, 0) :
             a \in ValidatorsOf(3)}
    \cup {DKGData("DKGComplaint", "a0", "nil", -1, 0, 0),
          DKGData("DKGComplaint", "a0", "complaint", -1, 2, 0),
          DKGData("DKGComplaint", "a2", "complaint", -1, 2, 0),
          DKGData("DKGReconstructCommit", "a0", "nil", 0, 0, 0),
          DKGData("DKGReconstructCommit", "a0", "complaint", 2, 0, 0),
          DKGData("DKGReconstructCommit", "a2", "complaint", 2, 2, 0)}

\* the stages a message can be ahead of the messages still to come: any in
\* the round of keys and deals, MaxStagesAhead in a round of up to
\* MaxFreeValidators validators, none in a larger one
StagesAhead(case, n) ==
    IF case = "keys" THEN 7
    ELSE IF n <= MaxFreeValidators THEN MaxStagesAhead
    ELSE 0

\* the messages of the type of msg come in the order of their senders: those
\* of a round of more than MaxFreeValidators validators, and those of phase I
\* in the round with complaints
InSenderOrder(msg) ==
    \/ dkg.n > MaxFreeValidators
    \/ dkg.case = "complaints" /\ TypeRank(msg.Type) < TypeRank("DKGCommits")

\* msg can be sent to the dealer now
CanSend(msg) ==
    \A x \in dkg.pool :
        /\ ~(x.Addr = msg.Addr /\ x.Type = msg.Type /\ x.Seq < msg.Seq)
        /\ TypeRank(x.Type) >= TypeRank(msg.Type) - StagesAhead(dkg.case, dkg.n)
        /\ InSenderOrder(msg) =>
               ~(x.Type = msg.Type /\ IndexOf(x.Addr) < IndexOf(msg.Addr))

\* the coordinator starts the round of the dealer
StartRound(d) == Aborted(Start([d EXCEPT !.out = NoOut, !.active = TRUE]))

DealerStart ==
    /\ dkg.dealer.roundID = 0 \/ (~dkg.dealer.suite /\ dkg.dealer.roundID = 1)
    /\ dkg' = [dkg EXCEPT !.dealer = StartRound(@)]
    /\ UNCHANGED <<cs, internalMsgQueue, timeoutTicker, blockStore, wal, evpool,
                   verifier, config, privValidator, running, peerVotes, exited,
                   other, scope, exec>>

DealerReceive ==
    /\ dkg.dealer.roundID > 0
    /\ \E msg \in dkg.pool :
          /\ CanSend(msg)
          /\ \E first \in RangeOrders(dkg.dealer, msg) :
                \E lib \in LibOutcomes(dkg.dealer, msg) :
                   dkg' = [dkg EXCEPT !.dealer = Received(@, msg, first, lib),
                                      !.pool = @ \ {msg}]
    /\ UNCHANGED <<cs, internalMsgQueue, timeoutTicker, blockStore, wal, evpool,
                   verifier, config, privValidator, running, peerVotes, exited,
                   other, scope, exec>>

DealerReset ==
    /\ dkg.dealer.suite
    /\ dkg.dealer.roundID > 0
    /\ dkg' = [dkg EXCEPT !.dealer = [ResetDKGData(@) EXCEPT !.out = NoOut]]
    /\ UNCHANGED <<cs, internalMsgQueue, timeoutTicker, blockStore, wal, evpool,
                   verifier, config, privValidator, running, peerVotes, exited,
                   other, scope, exec>>

NextDealer ==
    \/ DealerStart
    \/ DealerReceive
    \/ DealerReset

InitDealer ==
    /\ Started
    /\ verifier = FALSE
    /\ other = NoNode
    /\ privValidator = "a0"
    /\ exec = NoExecutor
    /\ scope = [heights |-> 0, rounds |-> 0, laterRounds |-> 0, votes |-> 0,
                laterVotes |-> 0, blocks |-> {}, signs |-> {"ok"}]
    /\ \/ dkg = [scenario |-> "dealer", case |-> "keys", n |-> 3,
                  dealer |-> NewDKGDealer(ValidatorsOf(3), Self(3), "DKGDealer"),
                  pool |-> KeysPool]
       \/ \E n \in 1..MaxValidators :
             dkg = [scenario |-> "dealer", case |-> "stages", n |-> n,
                    dealer |-> NewDKGDealer(ValidatorsOf(n), Self(n), "DKGDealer"),
                    pool |-> StagesPool(n, Self(n))]
       \/ dkg = [scenario |-> "dealer", case |-> "complaints", n |-> 3,
                  dealer |-> NewDKGDealer(ValidatorsOf(3), Self(3), "DKGDealer"),
                  pool |-> ComplaintsPool(Self(3))]

SpecDealer == InitDealer /\ [][NextDealer]_vars

\* ------------------------------------------------------------------------
\* Properties of the dealer

\* C21: whatever the size n of the validator set, the threshold the dealer
\* passes to the distributed key generator and the threshold t of the Verifier
\* that GetVerifier returns are the same number, floor(2n/3), and t < n.
ThresholdsAgree ==
    GetVerifier(dkg.dealer).err = "nil" =>
        /\ GetVerifier(dkg.dealer).t = dkg.dealer.instance.t
        /\ GetVerifier(dkg.dealer).t = (2 * dkg.n) \div 3
        /\ GetVerifier(dkg.dealer).t < dkg.n

\* the deals in the pool that name another participant than the dealer
ForAnother(msg) == msg.Type = "DKGDeal" /\ msg.ToIndex # IndexOf(dkg.dealer.addr)

\* C22: in whatever order the messages arrive, before GetDeals has run or
\* after, the dealer holds no deal whose ToIndex is not its own index among the
\* participants, and a deal for another participant is dropped: the handler
\* returns no error, runs no transition and leaves the dealer as it is.
DealsForSelfOnly ==
    /\ \A deal \in dkg.dealer.deals : deal.ToIndex = IndexOf(dkg.dealer.addr)
    /\ (dkg.dealer.roundID > 0 /\ dkg.dealer.active /\ dkg.dealer.suite) =>
          \A msg \in dkg.pool :
              ForAnother(msg) =>
                  \A first \in RangeOrders(dkg.dealer, msg) :
                      NothingDone(dkg.dealer,
                                  Received(dkg.dealer, msg, first, "error"))

\* the sender of msg has a deal, or a justification, in the dealer already
SecondOfSender(d, msg) ==
    \/ /\ msg.Type = "DKGDeal"
       /\ msg.ToIndex = d.participantID
       /\ \E deal \in d.deals : deal.Addr = msg.Addr
    \/ /\ msg.Type = "DKGJustification"
       /\ \E j \in d.justifications : j.Addr = msg.Addr

\* C23: a deal addressed to the dealer from a sender whose deal it holds, and
\* a justification from a sender whose justification it holds, change nothing:
\* the handler returns nil, runs no transition, sends no message, and every
\* field of the dealer is what it was before.
SecondMessageIgnored ==
    \A msg \in dkg.pool :
        SecondOfSender(dkg.dealer, msg) =>
            \A first \in RangeOrders(dkg.dealer, msg) :
                /\ HandleDKGData([dkg.dealer EXCEPT !.out = NoOut, !.first = first],
                                 msg).out = NoOut
                /\ [HandleDKGData([dkg.dealer EXCEPT !.out = NoOut, !.first = first], msg)
                       EXCEPT !.first = {}]
                      = [dkg.dealer EXCEPT !.out = NoOut]

\* the round is over, and the second deal and the second justification of a0
\* came after the first ones and were ignored
SecondMessageIgnoredWitness ==
    /\ dkg.case = "stages"
    /\ dkg.n = 3
    /\ GetVerifier(dkg.dealer).err = "nil"
    /\ \A msg \in StagesPool(3, "a1") :
          (msg.Addr = "a0" /\ msg.Type \in {"DKGDeal", "DKGJustification"})
              => msg \notin dkg.pool
    /\ \A msg \in dkg.dealer.deals \cup dkg.dealer.justifications : msg.Seq = 0
    /\ \E deal \in dkg.dealer.deals : deal.Addr = "a0"
    /\ \E j \in dkg.dealer.justifications : j.Addr = "a0"

\* no field of the dealer holds anything of a round
Cleared(d) ==
    /\ d.instance = NoInstance
    /\ d.transitions = <<>>
    /\ d.pubKeys = {}
    /\ d.deals = {}
    /\ d.responses = {}
    /\ d.justifications = {}
    /\ d.commits = {}
    /\ d.complaints = {}
    /\ d.reconstructCommits = {}
    /\ d.participantID = 0
    /\ d.losers = <<>>

\* C24: whatever a round has recorded in the dealer, after ResetDKGData none
\* of it is left: the instance, the transitions, the keys and the messages
\* held, and also the participant index and the losers.
ResetClearsRound ==
    dkg.dealer.suite => Cleared(ResetDKGData(dkg.dealer))

\* C25: whenever a handler has fired EventDKGInstanceCertified, the round is
\* complete: ProcessReconstructCommits has succeeded and GetVerifier returns a
\* Verifier.
CertifiedWhenComplete ==
    (\E i \in 1..Len(dkg.dealer.out.fired) :
        dkg.dealer.out.fired[i] = "EventDKGInstanceCertified")
        => /\ GetVerifier(dkg.dealer).err = "nil"
           /\ dkg.dealer.transitions = <<>>

\* the handler that ran last sent a message of the type
Sent(type) == \E msg \in dkg.dealer.out.sent : msg.Type = type

\* C26: the dealer sends the messages of a stage only when it holds the
\* messages the stage waits for: responses with n-1 deals, justifications with
\* (n-1)^2 responses, commits with n justifications, complaints with |QUAL|
\* commits, reconstruct commits with |QUAL|-1 complaints; and a response that
\* carries the dealer's participant index is not stored.
StageGating ==
    /\ Sent("DKGResponse") => Cardinality(dkg.dealer.deals) >= dkg.n - 1
    /\ Sent("DKGJustification")
          => Cardinality(dkg.dealer.responses) >= (dkg.n - 1) * (dkg.n - 1)
    /\ Sent("DKGCommits") => Cardinality(dkg.dealer.justifications) >= dkg.n
    /\ Sent("DKGComplaint")
          => Cardinality(dkg.dealer.commits) >= Cardinality(QUAL(dkg.dealer.instance))
    /\ Sent("DKGReconstructCommit")
          => Cardinality(dkg.dealer.complaints)
                >= Cardinality(QUAL(dkg.dealer.instance)) - 1
    /\ \A msg \in dkg.pool :
          (msg.Type = "DKGResponse" /\ IndexOf(msg.Addr) = dkg.dealer.participantID)
              => HandleDKGData([dkg.dealer EXCEPT !.out = NoOut], msg)
                    = [dkg.dealer EXCEPT !.out = NoOut]

\* the last of the commits took the dealer of three validators, which had
\* two complaints by then, through ProcessCommits and ProcessComplaints: it
\* sent its complaints and its reconstruct commits, and earlier in the round it
\* got to the justifications with exactly four responses
StageGatingWitness ==
    /\ dkg.n = 3
    /\ Sent("DKGComplaint")
    /\ Sent("DKGReconstructCommit")
    /\ Cardinality(dkg.dealer.commits) = 3
    /\ Cardinality(dkg.dealer.complaints) = 2
    /\ Cardinality(dkg.dealer.responses) = 4
    /\ Cardinality(dkg.dealer.deals) = 2

\* the dealer holds a key of every validator
KeyOfEveryValidator(d) == \A a \in d.validators : \E pk \in d.pubKeys : pk.Addr = a

\* C27: whatever DKGPubKey messages arrive, repeated ones and ones with
\* another key of the same validator among them, the store holds at most one
\* entry for an address, and SendDeals has been ready exactly when the dealer
\* has received a key of each of the n validators.
OneKeyPerValidator ==
    /\ \A p, q \in dkg.dealer.pubKeys : p.Addr = q.Addr => p = q
    /\ (dkg.dealer.roundID > 0 /\ dkg.dealer.suite /\ dkg.dealer.lastErr = "nil") =>
          (KeyOfEveryValidator(dkg.dealer) <=> "SendDeals" \notin
              {dkg.dealer.transitions[i] : i \in 1..Len(dkg.dealer.transitions)})

\* C28: when ProcessCommits has run and returned ready without an error, the
\* dealer has sent one DKGComplaint message for every commits it holds, also
\* when none of the commits raised a complaint.
ComplaintPerCommits ==
    \A i \in 1..Len(dkg.dealer.out.rets) :
        (/\ dkg.dealer.out.ran[i] = "ProcessCommits"
         /\ dkg.dealer.out.rets[i] = [err |-> "nil", ready |-> TRUE])
            => Cardinality({msg \in dkg.dealer.out.sent : msg.Type = "DKGComplaint"})
                  = Cardinality(dkg.dealer.commits)

\* the transition ran in the handler that the dealer ran last, and returned
\* ready and no error
RanReady(d, name) ==
    \E i \in 1..Len(d.out.rets) :
        d.out.ran[i] = name /\ d.out.rets[i] = [err |-> "nil", ready |-> TRUE]

\* C29: when the commits of one validator lack a commitment
\* (DKGMockDontSendOneCommit) and the other dealers follow the protocol, then
\* ProcessCommits of each of them sends a complaint with data for those
\* commits, its ProcessComplaints sends one DKGReconstructCommit for every
\* complaint it holds, and once every message has been delivered its queue of
\* transitions is empty and GetVerifier returns a Verifier.
OneCommitCompletes ==
    dkg.scenario = "oneCommit" =>
        \A a \in HonestDealers :
            /\ RanReady(dkg.dealers[a], "ProcessCommits") =>
                  \E msg \in dkg.dealers[a].out.sent :
                      /\ msg.Type = "DKGComplaint"
                      /\ msg.Data # "nil"
                      /\ dkg.dealers[DealerOrder[msg.Index + 1]].kind
                            = "DKGMockDontSendOneCommit"
            /\ RanReady(dkg.dealers[a], "ProcessComplaints") =>
                  Cardinality({msg \in dkg.dealers[a].out.sent :
                                  msg.Type = "DKGReconstructCommit"})
                      = Cardinality(dkg.dealers[a].complaints)
            /\ AllDelivered =>
                  /\ dkg.dealers[a].transitions = <<>>
                  /\ GetVerifier(dkg.dealers[a]).err = "nil"

\* ------------------------------------------------------------------------
\* The steps of finalizeCommit

FinalizeSteps == <<"SaveBlock", "WriteSync", "ApplyBlock", "updateToState", "scheduleRound0">>

\* the precommits of the commit round of the height the handler started in
CommitVotes(r) ==
    IF r.cs.Height = cs.Height THEN Precommits(r, r.cs.CommitRound)
    ELSE r.cs.LastCommit.votes

\* the handler that left r called finalizeCommit past its checks: the calls
\* are those of FinalizeSteps in their order, each once, up to ApplyBlock when
\* it fails; the block saved has +2/3 of the precommits, is valid and has the
\* random data that verifies; the EndHeight marker of the height is the last
\* entry of the WAL, written with fsync; and the node is at the next height in
\* step NewHeight with round 0 scheduled
CommitFinalized(r) ==
    r.steps # <<>> =>
        /\ r.steps = SubSeq(FinalizeSteps, 1, Len(r.steps))
        /\ Len(r.steps) = (IF r.killed THEN 3 ELSE 5)
        /\ ~r.panic
        /\ r.bs = Append(blockStore, r.bs[cs.Height])
        /\ HashesTo(r.bs[cs.Height], TwoThirdsMajority(CommitVotes(r)))
        /\ ValidateBlock(r, r.bs[cs.Height])
        /\ r.verifier
        /\ VerifyRandomData(PrevRandomData(Machine(TRUE)), r.bs[cs.Height].RandomData)
        /\ r.wal = Append(wal, cs.Height)
        /\ r.walWrites[Len(r.walWrites)]
              = [entry |-> EndHeightMessage(cs.Height), sync |-> TRUE]
        /\ ~r.killed =>
              /\ r.cs.Height = cs.Height + 1
              /\ r.cs.Step = RoundStepNewHeight
              /\ r.tt = [ti |-> [Height |-> cs.Height + 1, Round |-> 0,
                                 Step |-> RoundStepNewHeight],
                         active |-> TRUE]

\* C30: finalizeCommit takes its steps in one order: the checks pass first (a
\* +2/3 majority, the parts header, the block hash, ValidateBlock,
\* VerifyRandomData), then the block is saved, then the EndHeight marker is
\* written with fsync, then ApplyBlock is called, then updateToState takes the
\* node to the next height in step NewHeight, then round 0 is scheduled.
\* ApplyBlock is not called for a height whose marker has not been written,
\* and at most once for a height: the WAL has one marker for a height.
FinalizeOrder ==
    /\ \A i \in 1..Len(wal) : wal[i] = i
    /\ Live =>
        /\ \A mi \in PeerMsgs : \A applyOK \in ApplyOutcomes(mi) :
              CommitFinalized(receivePeerMsg(PeerMachine(applyOK), mi))
        /\ internalMsgQueue # <<>> =>
              \A applyOK \in BOOLEAN :
                 CommitFinalized(receiveInternalMsg(
                               [Machine(applyOK) EXCEPT !.q = Tail(internalMsgQueue)],
                               Head(internalMsgQueue)))
        /\ timeoutTicker.active =>
              \A applyOK \in BOOLEAN :
                 CommitFinalized(receiveTimeout([Machine(applyOK) EXCEPT !.tt.active = FALSE],
                                          timeoutTicker.ti))

\* at the second height a precommit of a peer takes the node through all the
\* steps of finalizeCommit, and would take it up to ApplyBlock if that failed
FinalizeOrderWitness ==
    /\ Live
    /\ cs.Height = 2
    /\ wal = <<1>>
    /\ \E v \in PeerVotes :
          /\ receivePeerMsg(PeerMachine(TRUE), v).steps = FinalizeSteps
          /\ receivePeerMsg(PeerMachine(FALSE), v).steps = SubSeq(FinalizeSteps, 1, 3)

\* ------------------------------------------------------------------------
\* Stale timeouts

\* the ticks the ticker can deliver: the one it holds, and any tick around the
\* current height and round
TimeoutTicks ==
    {timeoutTicker.ti}
    \cup [Height : {cs.Height - 1, cs.Height, cs.Height + 1},
          Round : 0..(cs.Round + 1),
          Step : RoundStepNewHeight..RoundStepCommit]

\* a tick of another height, of a smaller round, or of the round with a
\* smaller step
StaleTick(ti) ==
    \/ ti.Height # cs.Height
    \/ ti.Round < cs.Round
    \/ (ti.Round = cs.Round /\ ti.Step < cs.Step)

\* the receive routine took the tick and nothing came of it: the RoundState,
\* with the lock, the proposal and the vote sets, is as before, nothing was
\* signed, nothing scheduled, stored or finalized
TickDropped(r) ==
    /\ r.cs = cs
    /\ r.q = internalMsgQueue
    /\ r.tt = [timeoutTicker EXCEPT !.active = FALSE]
    /\ r.bs = blockStore
    /\ r.wal = wal
    /\ r.newRounds = <<>>
    /\ r.steps = <<>>
    /\ ~r.panic
    /\ ~r.killed

\* C31: a timeout tick (height, round, step) that is stale relative to the
\* RoundState (another height, a smaller round, or the same round with a
\* smaller step) is dropped: handleTimeout leaves Height, Round, Step, the
\* lock, the proposal and the vote sets unchanged and signs nothing; a tick
\* is acted upon only when none of the three conditions holds.
StaleTimeoutDropped ==
    Live =>
        \A ti \in TimeoutTicks :
            StaleTick(ti) =>
                TickDropped(receiveTimeout([Machine(TRUE) EXCEPT !.tt.active = FALSE], ti))

\* the ticker holds the PrecommitWait tick of the round in which the node has
\* entered Commit, and the node holds a lock
StaleTimeoutDroppedWitness ==
    /\ Live
    /\ timeoutTicker.active
    /\ timeoutTicker.ti.Height = cs.Height
    /\ timeoutTicker.ti.Round = cs.Round
    /\ timeoutTicker.ti.Step = RoundStepPrecommitWait
    /\ cs.Step = RoundStepCommit
    /\ cs.LockedRound >= 0

\* ------------------------------------------------------------------------
\* enterPrecommit on a polka the node cannot lock on

\* the rounds enterPrecommit can run for
PrecommitRounds ==
    {round \in cs.Round..RoundBound(cs.Height) :
        round = cs.Round => cs.Step < RoundStepPrecommit}

\* r has no lock
Unlocked(r) == r.cs.LockedRound = -1 /\ r.cs.LockedBlock = NoBlock

\* the handler that left r signed one vote, a precommit for nil; signAddVote
\* signs nothing while there is no Verifier
PrecommitsNil(r) ==
    IF verifier
    THEN /\ Len(r.q) = Len(internalMsgQueue) + 1
         /\ SubSeq(r.q, 1, Len(internalMsgQueue)) = internalMsgQueue
         /\ r.q[Len(r.q)].kind = "vote"
         /\ r.q[Len(r.q)].Type = PrecommitType
         /\ r.q[Len(r.q)].Height = cs.Height
         /\ r.q[Len(r.q)].BlockID = NilBlock
         /\ r.q[Len(r.q)].Val = privValidator
    ELSE r.q = internalMsgQueue

\* enterPrecommit left r on the polka of the round: nil, or a block that is
\* neither the locked block nor the proposal block
UnlockedOn(r, round, polka) ==
    /\ polka = NilBlock =>
          /\ Unlocked(r)
          /\ PrecommitsNil(r)
          /\ r.cs.ProposalBlock = cs.ProposalBlock
          /\ r.cs.ProposalBlockParts = cs.ProposalBlockParts
    /\ (/\ polka \notin {NoVote, NilBlock}
        /\ ~HashesTo(cs.LockedBlock, polka)
        /\ ~HashesTo(cs.ProposalBlock, polka)) =>
          /\ Unlocked(r)
          /\ PrecommitsNil(r)
          /\ IF HasHeader(cs.ProposalBlockParts, polka)
             THEN /\ r.cs.ProposalBlock = cs.ProposalBlock
                  /\ r.cs.ProposalBlockParts = cs.ProposalBlockParts
             ELSE /\ r.cs.ProposalBlock = NoBlock
                  /\ r.cs.ProposalBlockParts = NewPartSetFromHeader(polka)
    /\ polka # NoVote =>
          /\ r.cs.Round = round
          /\ r.cs.Step = RoundStepPrecommit
          /\ ~r.panic

\* C32: in enterPrecommit(h, r), when the prevotes of round r have +2/3 for
\* nil the node clears any lock (LockedRound = -1, LockedBlock = nil) and
\* precommits nil; when they have +2/3 for a block that is neither the locked
\* block nor the proposal block, the node clears any lock, resets
\* ProposalBlock and ProposalBlockParts to an empty part set for the parts
\* header of the polka, unless it tracks that header already, and precommits
\* nil.
UnlockOnPolka ==
    Live =>
        \A round \in PrecommitRounds :
            UnlockedOn(enterPrecommit(Machine(TRUE), cs.Height, round), round,
                       TwoThirdsMajority(Prevotes(Machine(TRUE), round)))

\* the node, with a Verifier, is locked on a block of an earlier round and the
\* prevotes of its round have +2/3 for another block, which it does not hold
UnlockOnPolkaWitness ==
    /\ Live
    /\ verifier
    /\ cs.LockedRound >= 0
    /\ cs.LockedRound < cs.Round
    /\ cs.Round \in PrecommitRounds
    /\ TwoThirdsMajority(Prevotes(Machine(TRUE), cs.Round)) \notin {NoVote, NilBlock}
    /\ ~HashesTo(cs.LockedBlock, TwoThirdsMajority(Prevotes(Machine(TRUE), cs.Round)))
    /\ ~HashesTo(cs.ProposalBlock, TwoThirdsMajority(Prevotes(Machine(TRUE), cs.Round)))
    /\ ~HasHeader(cs.ProposalBlockParts, TwoThirdsMajority(Prevotes(Machine(TRUE), cs.Round)))

\* the node, with a Verifier, is locked on a block of an earlier round and the
\* prevotes of its round have +2/3 for nil
UnlockOnNilPolka ==
    /\ Live
    /\ verifier
    /\ cs.LockedRound >= 0
    /\ cs.LockedRound < cs.Round
    /\ cs.Round \in PrecommitRounds
    /\ TwoThirdsMajority(Prevotes(Machine(TRUE), cs.Round)) = NilBlock

\* ------------------------------------------------------------------------
\* Signing votes

\* the votes a handler that started with the queue q and left r has signed
VotesSigned(r, q) ==
    {r.q[j] : j \in {k \in (Len(q) + 1)..Len(r.q) : r.q[k].kind = "vote"}}

\* the precommits among them carry a share that verifies, and there is none
\* when Verifier.Sign failed; nothing is signed without a Verifier
SignedWithShare(r, q, sign) ==
    /\ SubSeq(r.q, 1, Len(q)) = q
    /\ \A v \in VotesSigned(r, q) :
          /\ verifier
          /\ v.Val = privValidator
          /\ v.Type = PrecommitType => v.BLS /\ sign = "ok"

\* C33: while the coordinator has no Verifier, signAddVote produces no vote,
\* neither prevote nor precommit, puts nothing on the internal message queue
\* and changes no state; once there is a Verifier every precommit the node
\* signs carries a non-empty BLS partial signature over the random data of
\* the previous block, and no precommit is sent when signing the partial
\* fails or yields an empty signature.
SignNeedsVerifier ==
    /\ ~verifier =>
          /\ \A j \in 1..Len(internalMsgQueue) : internalMsgQueue[j].kind # "vote"
          /\ \A type \in VoteTypes : \A hash \in Blocks \cup {NilBlock} :
                signAddVote(Machine(TRUE), type, hash) = Machine(TRUE)
    /\ \A j \in 1..Len(internalMsgQueue) :
          (internalMsgQueue[j].kind = "vote" /\ internalMsgQueue[j].Type = PrecommitType)
              => internalMsgQueue[j].BLS
    /\ \A type \in VoteTypes : \A hash \in Blocks \cup {NilBlock} :
          \A sign \in {"ok", "error", "empty"} :
             SignedWithShare(signAddVote(Signing(Machine(TRUE), sign), type, hash),
                             internalMsgQueue, sign)
    /\ Live =>
          \A sign \in {"ok", "error", "empty"} :
             /\ \A mi \in PeerMsgs :
                   SignedWithShare(receivePeerMsg(Signing(PeerMachine(TRUE), sign), mi),
                                   internalMsgQueue, sign)
             /\ internalMsgQueue # <<>> =>
                   SignedWithShare(receiveInternalMsg(
                                       [Signing(Machine(TRUE), sign)
                                           EXCEPT !.q = Tail(internalMsgQueue)],
                                       Head(internalMsgQueue)),
                                   Tail(internalMsgQueue), sign)
             /\ timeoutTicker.active =>
                   SignedWithShare(receiveTimeout(
                                       [Signing(Machine(TRUE), sign)
                                           EXCEPT !.tt.active = FALSE],
                                       timeoutTicker.ti),
                                   internalMsgQueue, sign)

\* the node has a Verifier and the timeout of PrevoteWait is due: the node
\* signs a precommit if Verifier.Sign succeeds, and none if it fails
SignNeedsVerifierWitness ==
    /\ Live
    /\ verifier
    /\ timeoutTicker.active
    /\ \E v \in VotesSigned(receiveTimeout([Signing(Machine(TRUE), "ok")
                                               EXCEPT !.tt.active = FALSE],
                                           timeoutTicker.ti),
                            internalMsgQueue) : v.Type = PrecommitType
    /\ VotesSigned(receiveTimeout([Signing(Machine(TRUE), "empty")
                                      EXCEPT !.tt.active = FALSE],
                                  timeoutTicker.ti),
                   internalMsgQueue) = {}

\* without a Verifier the node reaches the step Precommit of a round, having
\* signed nothing
NoVerifierNoVote ==
    /\ Live
    /\ ~verifier
    /\ cs.Step = RoundStepPrecommit
    /\ \A t \in VoteTypes : cs.Votes[cs.Round][t][privValidator] = NoVote

\* ------------------------------------------------------------------------
\* The committed block arrives after enterCommit

\* the block with +2/3 of the precommits of the commit round
CommittedBlock == TwoThirdsMajority(Precommits(Machine(TRUE), cs.CommitRound))

\* the node has entered Commit on the precommits for a block it does not hold,
\* the random data was recovered, and the parts of the block are awaited
AwaitsCommittedBlock ==
    /\ Live
    /\ verifier
    /\ cs.Step = RoundStepCommit
    /\ cs.CommitRound >= 0
    /\ CommittedBlock \notin {NoVote, NilBlock}
    /\ RecoverOK(Precommits(Machine(TRUE), cs.CommitRound))
    /\ cs.ProposalBlock = NoBlock
    /\ cs.ProposalBlockParts = NewPartSetFromHeader(CommittedBlock)

\* the last part of the committed block
LastPart == [kind |-> "part", Height |-> cs.Height, Round |-> cs.Round,
             Block |-> CommittedBlock]

\* r is at the next height, the block saved is the one committed and its
\* random data is the recovery over the random data of the previous block
FinalizedCommitted(r, blockID) ==
    /\ ~r.panic
    /\ r.cs.Height = cs.Height + 1
    /\ r.cs.Step = RoundStepNewHeight
    /\ Len(r.bs) = cs.Height
    /\ HashesTo(r.bs[cs.Height], blockID)
    /\ r.bs[cs.Height].RandomData = BLSSign(PrevRandomData(Machine(TRUE)))

\* C34: a node that enters Commit(h, r) on +2/3 precommits for a block B
\* without holding B, and afterwards receives all parts of B, finalizes B at
\* height h (reaches NewHeight of h+1) with the random data of B equal to the
\* threshold recovery of the precommit partials of the commit round over the
\* random data of the previous block, as a node that held B when it entered
\* Commit does.
LateBlockFinalized ==
    AwaitsCommittedBlock =>
        FinalizedCommitted(receivePeerMsg(PeerMachine(TRUE), LastPart), CommittedBlock)

\* the receive routine panics on the last part of the committed block
LateBlockPanics ==
    AwaitsCommittedBlock => receivePeerMsg(PeerMachine(TRUE), LastPart).panic

\* a node that holds the block when it enters Commit finalizes it
HeldBlockFinalized ==
    /\ Live
    /\ cs.ProposalBlock # NoBlock
    /\ \E v \in PeerVotes :
          /\ v.Type = PrecommitType
          /\ HashesTo(cs.ProposalBlock, v.BlockID)
          /\ FinalizedCommitted(receivePeerMsg(PeerMachine(TRUE), v), v.BlockID)

\* ------------------------------------------------------------------------
\* The shares of the precommits admitted

\* the precommits a peer can deliver whose BLS share fails VerifyRandomShare
UnverifiedPrecommits == {v \in PeerVotes : v.Type = PrecommitType /\ ~v.BLS}

\* C35: every precommit that a node admits into any of its vote sets, the
\* vote set of the current height or LastCommit (the stragglers of the last
\* commit received in step NewHeight), carries a BLS partial signature that
\* passed VerifyRandomShare for the voting validator before the vote was
\* added.
AdmittedSharesVerified ==
    Live =>
        \A v \in UnverifiedPrecommits :
            LET r == tryAddVote(PeerMachine(TRUE), v)
            IN /\ ~r.out.added
               /\ r.cs.Votes = cs.Votes
               /\ r.cs.LastCommit = cs.LastCommit

\* the same for the vote set of the current height alone
CurrentSharesVerified ==
    Live =>
        \A v \in UnverifiedPrecommits :
            v.Height = cs.Height =>
                LET r == tryAddVote(PeerMachine(TRUE), v)
                IN ~r.out.added /\ r.cs.Votes = cs.Votes

\* ------------------------------------------------------------------------
\* sm.BlockExecutor and sm.State (consensus/dkg_dealer.go)

\* the addresses of the validators a block can name
ExecAddrs == {"a0", "a1", "a2"}

\* types.ValidatorSet: the members, their voting power, and how often
\* IncrementProposerPriority has run
ValidatorSetOf(members) ==
    [members |-> members,
     power |-> [a \in ExecAddrs |-> IF a \in members THEN 1 ELSE 0],
     incs |-> 0]

\* the validator updates of abciResponses.EndBlock: sequences of up to
\* MaxValidatorUpdates updates, of a validator in the set or of a new one
ValidatorUpdate ==
    [Address : {"a1", "a2"}, Power : {-1, 0, 2}, KeyType : {"ed25519", "unsupported"}]
ValidatorUpdates ==
    UNION {[1..n -> ValidatorUpdate] : n \in 0..MaxValidatorUpdates}

\* a block with what the application answers to it: whether ValidateBlock
\* accepts it, whether execBlockOnProxyApp succeeds, the validator updates
\* and the update of BlockSize.MaxBytes of EndBlock, if any
NoParamUpdates == -1
ExecBlocks ==
    [valid : BOOLEAN, execOK : BOOLEAN, updates : ValidatorUpdates,
     params : {NoParamUpdates, 0, 2}]
NoExecBlock ==
    [valid |-> FALSE, execOK |-> FALSE, updates |-> <<>>, params |-> NoParamUpdates]

\* a nil app hash
NoAppHash == -1

\* validateValidatorUpdates
RECURSIVE validateValidatorUpdates(_, _)
validateValidatorUpdates(abciUpdates, params) ==
    IF abciUpdates = <<>> THEN "nil"
    ELSE IF Head(abciUpdates).Power < 0 THEN "Voting power can't be negative"
    ELSE IF Head(abciUpdates).Power = 0
    THEN validateValidatorUpdates(Tail(abciUpdates), params)
    ELSE IF Head(abciUpdates).KeyType # "ed25519" THEN "unsupported for consensus"
    ELSE validateValidatorUpdates(Tail(abciUpdates), params)

\* types.PB2TM.ValidatorUpdates: the public key of every update is converted
PB2TMValidatorUpdates(abciUpdates) ==
    IF \E i \in 1..Len(abciUpdates) : abciUpdates[i].KeyType # "ed25519"
    THEN "unknown pubkey type"
    ELSE "nil"

\* updateValidators changes currentSet in place, update by update; set is
\* currentSet as the call leaves it
RECURSIVE updateValidators(_, _, _)
updateValidators(currentSet, updates, isVotingPowerEqual) ==
    IF updates = <<>> THEN [err |-> "nil", set |-> currentSet]
    ELSE LET valUpdate == Head(updates)
             address == valUpdate.Address
         IN IF ~isVotingPowerEqual /\ valUpdate.Power < 0
            THEN [err |-> "Voting power can't be negative", set |-> currentSet]
            ELSE IF ~isVotingPowerEqual /\ valUpdate.Power = 0
            THEN IF address \notin currentSet.members
                 THEN [err |-> "Failed to remove validator", set |-> currentSet]
                 ELSE updateValidators(
                         [currentSet EXCEPT !.members = @ \ {address},
                                            !.power[address] = 0],
                         Tail(updates), isVotingPowerEqual)
            ELSE updateValidators(
                    [currentSet EXCEPT !.members = @ \cup {address},
                                       !.power[address] = valUpdate.Power],
                    Tail(updates), isVotingPowerEqual)

\* sm.State: the validator sets are pointers into the heap of the executor
GenesisExecState(isVotingPowerEqual) ==
    [LastBlockHeight |-> 0,
     NextValidators |-> 1, Validators |-> 2, LastValidators |-> 3,
     LastHeightValidatorsChanged |-> 1,
     ConsensusParams |-> [MaxBytes |-> 1, IsVotingPowerEqual |-> isVotingPowerEqual],
     LastHeightConsensusParamsChanged |-> 1,
     AppHash |-> 0]

\* the executor and its caller: pc is where ApplyBlock stands, lock who holds
\* the mempool lock, state the state of the caller, heap the validator sets,
\* input the state and the heap ApplyBlock was called with, block the block,
\* local the variable state of ApplyBlock, err the error of the last call,
\* calls the calls Commit has made with the holder of the lock at each, ret
\* what ApplyBlock returned
NewBlockExecutor(isVotingPowerEqual) ==
    [pc |-> "idle", lock |-> "none",
     state |-> GenesisExecState(isVotingPowerEqual),
     heap |-> <<[ValidatorSetOf({"a0", "a1"}) EXCEPT !.incs = 1],
                ValidatorSetOf({"a0", "a1"}), ValidatorSetOf({})>>,
     input |-> [state |-> GenesisExecState(isVotingPowerEqual), heap |-> <<>>],
     block |-> NoExecBlock, local |-> GenesisExecState(isVotingPowerEqual),
     err |-> "nil", calls |-> <<>>, ret |-> [err |-> "none"]]

\* ApplyBlock returns
ExecReturn(e, state, err) ==
    [e EXCEPT !.pc = "returned", !.ret = [state |-> state, err |-> err]]

\* updateState, the parameters: on an error the state it was given is returned
updateStateParams(e, state, height, block, nValSet) ==
    LET nextParams == IF block.params = NoParamUpdates THEN state.ConsensusParams
                      ELSE [state.ConsensusParams EXCEPT !.MaxBytes = block.params]
        n == Len(e.heap)
    IN IF block.params # NoParamUpdates /\ nextParams.MaxBytes <= 0
       THEN [e EXCEPT !.heap = Append(@, nValSet),
                      !.local = state, !.err = "Error updating consensus params"]
       ELSE [e EXCEPT
               !.heap = @ \o <<nValSet, e.heap[state.NextValidators],
                               e.heap[state.Validators]>>,
               !.err = "nil",
               !.local =
                  [LastBlockHeight |-> height,
                   NextValidators |-> n + 1, Validators |-> n + 2,
                   LastValidators |-> n + 3,
                   LastHeightValidatorsChanged |->
                       IF Len(block.updates) > 0 THEN height + 1 + 1
                       ELSE state.LastHeightValidatorsChanged,
                   ConsensusParams |-> nextParams,
                   LastHeightConsensusParamsChanged |->
                       IF block.params # NoParamUpdates THEN height + 1
                       ELSE state.LastHeightConsensusParamsChanged,
                   AppHash |-> NoAppHash]]

\* updateState works on a copy of state.NextValidators
execUpdateState(e, state, height, block) ==
    LET r == IF Len(block.updates) > 0
             THEN updateValidators(e.heap[state.NextValidators], block.updates,
                                   state.ConsensusParams.IsVotingPowerEqual)
             ELSE [err |-> "nil", set |-> e.heap[state.NextValidators]]
    IN IF r.err # "nil"
       THEN [e EXCEPT !.heap = Append(@, r.set), !.local = state,
                      !.err = "Error changing validator set"]
       ELSE updateStateParams(e, state, height, block,
                              [r.set EXCEPT !.incs = @ + 1])

\* ApplyBlock up to the call of Commit
ApplyBlock(e, state, block) ==
    LET e0 == [e EXCEPT !.input = [state |-> state, heap |-> e.heap],
                        !.block = block, !.local = state, !.err = "nil",
                        !.calls = <<>>, !.ret = [err |-> "none"]]
        e1 == execUpdateState(e0, state, state.LastBlockHeight + 1, block)
    IN IF ~block.valid THEN ExecReturn(e0, state, "ErrInvalidBlock")
       ELSE IF ~block.execOK THEN ExecReturn(e0, state, "ErrProxyAppConn")
       ELSE IF validateValidatorUpdates(block.updates, state.ConsensusParams) # "nil"
       THEN ExecReturn(e0, state, "Error in validator updates")
       ELSE IF PB2TMValidatorUpdates(block.updates) # "nil"
       THEN ExecReturn(e0, state, PB2TMValidatorUpdates(block.updates))
       ELSE IF e1.err # "nil" THEN ExecReturn(e1, e1.local, "Commit failed for application")
       ELSE [e1 EXCEPT !.pc = "Commit"]

\* a call Commit makes while it holds, or does not hold, the lock
CommitCall(e, name, ok) ==
    [e EXCEPT !.calls = Append(@, [name |-> name, lock |-> e.lock]),
              !.err = IF ok THEN "nil" ELSE name]

\* blockExec.mempool.Lock()
MempoolLock(e) == [e EXCEPT !.lock = "Commit", !.pc = "FlushAppConn"]

\* Commit: FlushAppConn, CommitSync and Update; an error ends the sequence
CommitStep(e, ok) ==
    IF e.pc = "FlushAppConn"
    THEN [CommitCall(e, "FlushAppConn", ok) EXCEPT
              !.pc = IF ok THEN "CommitSync" ELSE "Unlock"]
    ELSE IF e.pc = "CommitSync"
    THEN [CommitCall(e, "CommitSync", ok) EXCEPT
              !.pc = IF ok THEN "Update" ELSE "Unlock"]
    ELSE [CommitCall(e, "Update", ok) EXCEPT !.pc = "Unlock"]

\* the deferred blockExec.mempool.Unlock(), released on success only
MempoolUnlockMutOnSuccess(e) ==
    IF e.err = "nil" THEN [e EXCEPT !.lock = "none"] ELSE e

\* the deferred blockExec.mempool.Unlock()
MempoolUnlock(e) == [e EXCEPT !.lock = "none"]

\* ApplyBlock after Commit: the state is saved with the app hash, or the
\* error of Commit is returned
ApplyBlockCommitted(e) ==
    IF e.err # "nil" THEN ExecReturn(e, e.local, "Commit failed for application")
    ELSE ExecReturn(e, [e.local EXCEPT !.AppHash = e.local.LastBlockHeight], "nil")

\* ---- the caller and the users of the mempool

\* finalizeCommit calls ApplyBlock with its state
ExecApplyBlock ==
    /\ exec.pc = "idle"
    /\ exec.state.LastBlockHeight < MaxExecHeight
    /\ \E block \in ExecBlocks : exec' = ApplyBlock(exec, exec.state, block)
    /\ UNCHANGED <<cs, internalMsgQueue, timeoutTicker, blockStore, wal, evpool,
                   verifier, config, privValidator, running, peerVotes, exited,
                   other, dkg, scope>>

\* Commit takes the mempool lock when it is free
ExecLock ==
    /\ exec.pc = "Commit"
    /\ exec.lock = "none"
    /\ exec' = MempoolLock(exec)
    /\ UNCHANGED <<cs, internalMsgQueue, timeoutTicker, blockStore, wal, evpool,
                   verifier, config, privValidator, running, peerVotes, exited,
                   other, dkg, scope>>

\* Commit makes its next call, which succeeds or fails
ExecCommitStep ==
    /\ exec.pc \in {"FlushAppConn", "CommitSync", "Update"}
    /\ \E ok \in BOOLEAN : exec' = CommitStep(exec, ok)
    /\ UNCHANGED <<cs, internalMsgQueue, timeoutTicker, blockStore, wal, evpool,
                   verifier, config, privValidator, running, peerVotes, exited,
                   other, dkg, scope>>

\* Commit returns, and ApplyBlock after it
ExecUnlock ==
    /\ exec.pc = "Unlock"
    /\ exec' = ApplyBlockCommitted(MempoolUnlock(exec))
    /\ UNCHANGED <<cs, internalMsgQueue, timeoutTicker, blockStore, wal, evpool,
                   verifier, config, privValidator, running, peerVotes, exited,
                   other, dkg, scope>>

\* finalizeCommit takes the state ApplyBlock returned, or kills the process
ExecReturned ==
    /\ exec.pc = "returned"
    /\ exec' = IF exec.ret.err = "nil"
               THEN [exec EXCEPT !.pc = "idle", !.state = exec.ret.state]
               ELSE [exec EXCEPT !.pc = "killed"]
    /\ UNCHANGED <<cs, internalMsgQueue, timeoutTicker, blockStore, wal, evpool,
                   verifier, config, privValidator, running, peerVotes, exited,
                   other, dkg, scope>>

\* another user of the mempool takes the lock when it is free
MempoolUserLock ==
    /\ exec.pc \notin {"none", "killed"}
    /\ exec.lock = "none"
    /\ exec' = [exec EXCEPT !.lock = "CheckTx"]
    /\ UNCHANGED <<cs, internalMsgQueue, timeoutTicker, blockStore, wal, evpool,
                   verifier, config, privValidator, running, peerVotes, exited,
                   other, dkg, scope>>

\* and releases it
MempoolUserUnlock ==
    /\ exec.lock = "CheckTx"
    /\ exec' = [exec EXCEPT !.lock = "none"]
    /\ UNCHANGED <<cs, internalMsgQueue, timeoutTicker, blockStore, wal, evpool,
                   verifier, config, privValidator, running, peerVotes, exited,
                   other, dkg, scope>>

NextExec ==
    \/ ExecApplyBlock
    \/ ExecLock
    \/ ExecCommitStep
    \/ ExecUnlock
    \/ ExecReturned
    \/ MempoolUserLock
    \/ MempoolUserUnlock

\* an executor at the genesis state, with either setting of IsVotingPowerEqual
InitExec ==
    /\ Started
    /\ verifier = FALSE
    /\ other = NoNode
    /\ dkg = NoDKG
    /\ privValidator = "a0"
    /\ scope = [heights |-> 0, rounds |-> 0, laterRounds |-> 0, votes |-> 0,
                laterVotes |-> 0, blocks |-> {}, signs |-> {"ok"}]
    /\ \E isVotingPowerEqual \in BOOLEAN : exec = NewBlockExecutor(isVotingPowerEqual)

SpecExec == InitExec /\ [][NextExec]_vars

\* ------------------------------------------------------------------------
\* The mempool lock

\* where Commit stands between Lock and the deferred Unlock
InCommit == exec.pc \in {"FlushAppConn", "CommitSync", "Update", "Unlock"}

\* the names of the calls Commit has made, in their order
CallNames == [i \in 1..Len(exec.calls) |-> exec.calls[i].name]

\* C36: BlockExecutor.Commit holds the mempool lock for the whole sequence
\* FlushAppConn, CommitSync of the application, Update of the mempool, and
\* releases it on every exit path, success or error; if FlushAppConn fails,
\* CommitSync and Update are not called, and if CommitSync fails, Update is
\* not called; the lock is never held outside Commit.
MempoolLockedInCommit ==
    exec.pc # "none" =>
        /\ InCommit <=> exec.lock = "Commit"
        /\ \A i \in 1..Len(exec.calls) : exec.calls[i].lock = "Commit"
        /\ CallNames = SubSeq(<<"FlushAppConn", "CommitSync", "Update">>,
                              1, Len(exec.calls))
        /\ (exec.err # "nil" /\ exec.calls # <<>>) =>
              /\ exec.calls[Len(exec.calls)].name = exec.err
              /\ exec.pc \in {"Unlock", "returned", "killed"}
        /\ exec.pc \in {"returned", "killed", "idle"} => exec.lock # "Commit"
        /\ (exec.pc = "returned" /\ exec.ret.err = "nil" /\ exec.block # NoExecBlock) =>
              CallNames = <<"FlushAppConn", "CommitSync", "Update">>

\* CommitSync failed: ApplyBlock has returned the error, Update was not
\* called, and another user of the mempool holds the lock
MempoolLockedInCommitWitness ==
    /\ exec.pc = "returned"
    /\ exec.ret.err # "nil"
    /\ CallNames = <<"FlushAppConn", "CommitSync">>
    /\ exec.lock = "CheckTx"

\* ------------------------------------------------------------------------
\* The state ApplyBlock returns with an error

\* the validator sets of the state ApplyBlock was called with are as they
\* were at the call
InputValidatorsKept ==
    \A ref \in {exec.input.state.NextValidators, exec.input.state.Validators,
                exec.input.state.LastValidators} :
        exec.heap[ref] = exec.input.heap[ref]

\* ApplyBlock has returned an error
ApplyBlockFailed == exec.pc = "returned" /\ exec.ret.err # "nil"

\* C40: whenever BlockExecutor.ApplyBlock returns an error, from
\* ValidateBlock, the execution of the block, the validation of the validator
\* updates, updateState or Commit, the State it returns equals the state it
\* was given (no rotation of the validator sets, no change of height or
\* params), and the validator sets of that state are never mutated, because
\* the updates are applied to a copy of NextValidators.
FailedApplyReturnsInput ==
    /\ (exec.pc # "none" /\ exec.input.heap # <<>>) => InputValidatorsKept
    /\ ApplyBlockFailed => exec.ret.state = exec.input.state

\* it does when the error is not one of Commit
FailedBeforeCommitReturnsInput ==
    /\ (exec.pc # "none" /\ exec.input.heap # <<>>) => InputValidatorsKept
    /\ (ApplyBlockFailed /\ exec.calls = <<>>) => exec.ret.state = exec.input.state

\* when Commit fails the state returned is the one updateState made
FailedCommitReturnsUpdated ==
    (ApplyBlockFailed /\ exec.calls # <<>>) =>
        /\ exec.ret.state = exec.local
        /\ exec.ret.state.LastBlockHeight = exec.input.state.LastBlockHeight + 1
        /\ exec.ret.state.Validators # exec.input.state.Validators

\* updateState fails on the second of two validator updates, after the first
\* has changed the copy
UpdateStateFailed ==
    /\ ApplyBlockFailed
    /\ exec.calls = <<>>
    /\ exec.err = "Error changing validator set"
    /\ exec.heap[Len(exec.heap)] # exec.heap[exec.input.state.NextValidators]

\* ------------------------------------------------------------------------
\* The step Commit

\* the handler that left r did not advance the height: the node is in step
\* Commit as before, with its round, its commit round and the part set of the
\* committed block
StaysInCommit(r) ==
    r.cs.Height = cs.Height =>
        /\ r.cs.Step = RoundStepCommit
        /\ r.cs.Round = cs.Round
        /\ r.cs.CommitRound = cs.CommitRound
        /\ r.cs.ProposalBlockParts.header = cs.ProposalBlockParts.header

\* C37: once enterCommit has set Step = Commit at height h, the node stays in
\* step Commit with Round, CommitRound and ProposalBlockParts unchanged until
\* finalizeCommit advances the height; in every reachable state
\* CommitRound >= 0 if and only if Step = Commit. This holds also when
\* precommits for a round greater than Round reach +2/3 of any votes while the
\* node waits for the committed block.
CommitStepKept ==
    /\ cs.CommitRound >= 0 <=> cs.Step = RoundStepCommit
    /\ (Live /\ cs.Step = RoundStepCommit) =>
          /\ \A mi \in PeerMsgs :
                StaysInCommit(receivePeerMsg(PeerMachine(TRUE), mi))
          /\ internalMsgQueue # <<>> =>
                StaysInCommit(receiveInternalMsg(
                                  [Machine(TRUE) EXCEPT !.q = Tail(internalMsgQueue)],
                                  Head(internalMsgQueue)))
          /\ timeoutTicker.active =>
                StaysInCommit(receiveTimeout([Machine(TRUE) EXCEPT !.tt.active = FALSE],
                                             timeoutTicker.ti))

\* the votes of a later round that take a node in step Commit to that round
SkipsFromCommit ==
    {v \in PeerVotes :
        /\ v.Height = cs.Height
        /\ v.Round > cs.Round
        /\ receivePeerMsg(PeerMachine(TRUE), v).cs.Round = v.Round}

\* the node waits in step Commit of round 0 for the committed block, and a
\* precommit of round 1 that completes +2/3 of any votes takes it to round 1
SkipsFromCommitReached ==
    /\ Live
    /\ cs.Step = RoundStepCommit
    /\ cs.ProposalBlock = NoBlock
    /\ \E v \in SkipsFromCommit :
          /\ v.Type = PrecommitType
          /\ v.BlockID = NilBlock
          /\ receivePeerMsg(PeerMachine(TRUE), v).cs.Step # RoundStepCommit
          /\ receivePeerMsg(PeerMachine(TRUE), v).cs.CommitRound = cs.CommitRound
          /\ receivePeerMsg(PeerMachine(TRUE), v).cs.ProposalBlockParts = NoParts

\* ------------------------------------------------------------------------
\* Peer precommits before the first Verifier

\* the precommits of the current height a peer can send
CurrentPeerPrecommits ==
    {v \in PeerVotes : v.Type = PrecommitType /\ v.Height = cs.Height}

\* the handler returned without a panic and the deferred function of the
\* receive routine left the routine running
LoopKeepsRunning(r) ==
    /\ ~r.panic
    /\ receiveRoutineDefer(r, exited) = exited

\* C38: while the node has no Verifier, handling a precommit of the current
\* height from a peer does not fault: the vote is rejected or ignored and the
\* receive routine keeps running.
PeerPrecommitNoFault ==
    (Live /\ ~verifier) =>
        \A v \in CurrentPeerPrecommits :
            LoopKeepsRunning(receivePeerMsg(PeerMachine(TRUE), v))

\* without a Verifier every precommit of the current height from a peer makes
\* the handler panic, and onExit stops the receive routine
PeerPrecommitPanics ==
    (Live /\ ~verifier) =>
        \A v \in CurrentPeerPrecommits :
            /\ receivePeerMsg(PeerMachine(TRUE), v).panic
            /\ receiveRoutineDefer(receivePeerMsg(PeerMachine(TRUE), v), exited)
                  = onExit(exited)

\* the receive routine has stopped on a panic at a height where the node has
\* no Verifier and holds no precommit
PanickedWithoutVerifier ==
    /\ ~verifier
    /\ running = "panicked"
    /\ \A r \in DOMAIN cs.Votes : \A a \in Vals :
          cs.Votes[r].precommit[a] = "none"

\* with a Verifier there are precommits of the current height from a peer
\* that are handled without a panic
PeerPrecommitWithVerifier ==
    /\ Live
    /\ verifier
    /\ \E v \in CurrentPeerPrecommits :
          LoopKeepsRunning(receivePeerMsg(PeerMachine(TRUE), v))

\* ------------------------------------------------------------------------
\* Justifications with data

\* ProcessJustifications has not run in the round of the dealer d
AwaitsJustifications(d) ==
    /\ d.roundID > 0
    /\ d.active
    /\ \E i \in 1..Len(d.transitions) : d.transitions[i] = "ProcessJustifications"

\* the justifications with data that can reach the dealer now
JustificationsWithData ==
    {msg \in dkg.pool :
        CanSend(msg) /\ msg.Type = "DKGJustification" /\ msg.Data # "nil"}

\* the dealer r holds the justification msg for GetCommits to hand to
\* instance.ProcessJustification
HeldForProcessing(r, msg) == msg \in r.justifications

\* C39: every justification with data that the dealer receives before
\* ProcessJustifications has run is handed to the DKG instance: the look-up of
\* the sender in HandleDKGJustification never drops a justification with data
\* in favour of an earlier one without data of the same sender.
JustificationsWithDataProcessed ==
    AwaitsJustifications(dkg.dealer) =>
        \A msg \in JustificationsWithData :
            HeldForProcessing(Received(dkg.dealer, msg, {}, "error"), msg)

\* the first justification of a sender, with data or without, is held
FirstJustificationHeld ==
    AwaitsJustifications(dkg.dealer) =>
        \A msg \in dkg.pool :
            (/\ CanSend(msg)
             /\ msg.Type = "DKGJustification"
             /\ ~SecondOfSender(dkg.dealer, msg)) =>
                HeldForProcessing(Received(dkg.dealer, msg, {}, "error"), msg)

\* a justification with data is dropped exactly when the dealer holds one of
\* its sender
DroppedAfterFirst ==
    AwaitsJustifications(dkg.dealer) =>
        \A msg \in JustificationsWithData :
            ~HeldForProcessing(Received(dkg.dealer, msg, {}, "error"), msg)
                <=> SecondOfSender(dkg.dealer, msg)

\* both justifications of a0 have come while the dealer waits for those of the
\* others, and the one it holds for ProcessJustifications is the one without
\* data
JustificationWithDataDropped ==
    /\ dkg.case = "stages"
    /\ dkg.n = 3
    /\ AwaitsJustifications(dkg.dealer)
    /\ \A msg \in dkg.pool : msg.Type = "DKGJustification" => msg.Addr # "a0"
    /\ \E msg \in dkg.pool : msg.Type = "DKGJustification"
    /\ \E j \in dkg.dealer.justifications : j.Addr = "a0"
    /\ \A j \in dkg.dealer.justifications : j.Addr = "a0" => j.Data = "nil"

====
